---- MODULE Spec2Model ----
(***************************************************************************)
(* RetailID codec and resolver of metrc-rid-sdk (src/src/metrc/http.ts,    *)
(* the retailid part of the file, lines 166-795).                          *)
(*                                                                         *)
(* Representation.                                                         *)
(*   - a byte array (Uint8Array) is a sequence over 0..255;                *)
(*   - a string is a sequence of one-character strings;                    *)
(*   - a JavaScript number holding a non-negative integer is a Num: four   *)
(*     little-endian limbs of 16 bits (TLC's integers are 32 bits wide,    *)
(*     the code's run to 2^53 and a little beyond).  All arithmetic the    *)
(*     code does on such numbers is exact in IEEE doubles up to the point  *)
(*     where Number.isSafeInteger rejects the result, and rounding is      *)
(*     monotonic, so exact arithmetic followed by the comparison with      *)
(*     2^53-1 decides isSafeInteger exactly as the code does;              *)
(*   - a function that may throw returns [ok |-> TRUE, val |-> v] or       *)
(*     [ok |-> FALSE, err |-> e].                                          *)
(***************************************************************************)
EXTENDS Integers, Sequences, FiniteSets, TLC

VARIABLES
    calls,      \* codec calls made by the caller so far: <<[fn, arg, ret], ...>>
    pc,         \* position of the resolver/encoder caller
    src,        \* what was handed to getShortUrl: [id, index, opts], or NoVal
    shortUrl,   \* what getShortUrl returned or threw, or NoVal
    entry,      \* the entry point called: parseRetailId or new RetailIdPair(url, strict)
    input,      \* the string handed to parseRetailId
    options,    \* ParseOptions: [validationFallback, strictPrefixesOnly]
    extracted,  \* result of extractShortCode + detectEncodingHint
    attempts,   \* decode attempts made so far: <<[mode, enc, ok], ...>>
    outcome,    \* what parseRetailId returned or threw, or NoVal
    reencoded,  \* what RetailIdPair.encode() returned, or NoVal
    heap,       \* the Uint8Arrays in memory: heap[a] is the content of array a
    obj,        \* the ObjectId constructed: [bytes |-> a], its private array, or NoVal
    made,       \* the constructor call: [kind, input, ret, hex], or NoVal
    ids,        \* the arrays the id accessor has returned, in order
    lastRet,    \* the last method call on the ObjectId and what it returned
    phase,      \* position of the outermost HTTP call: idle, fetch1, waiting, fetch2, parse1, parse2, exit
    requests,   \* the arguments of the MetrcHttp.request invocations so far
    fetches,    \* the fetchImpl calls so far: <<[url, method, aborted], ...>>
    responses,  \* the responses fetchImpl has resolved with, in order
    timer,      \* the timeout timer: [started, fired, cleared]
    waits,      \* the Retry-After timers: <<[ms, elapsed], ...>>
    result      \* what the outermost HTTP call returned or threw, or NoVal

vars ==
    <<calls, pc, src, shortUrl, entry, input, options, extracted, attempts, outcome, reencoded,
      heap, obj, made, ids, lastRet, phase, requests, fetches, responses, timer, waits, result>>
codecVars == <<calls>>
resolverVars == <<pc, src, shortUrl, entry, input, options, extracted, attempts, outcome, reencoded>>
objectVars == <<heap, obj, made, ids, lastRet>>
httpVars == <<phase, requests, fetches, responses, timer, waits, result>>

NoVal == [none |-> TRUE]

Ok(v) == [ok |-> TRUE, val |-> v]
Err(e) == [ok |-> FALSE, err |-> e]

(***************************************************************************)
(* Sequence helpers                                                        *)
(***************************************************************************)
Repeat(x, n) == [i \in 1..n |-> x]

Reverse(s) == [i \in 1..Len(s) |-> s[Len(s) + 1 - i]]

\* s.slice(from) with a 0-based index
Drop(s, n) == IF n >= Len(s) THEN <<>> ELSE SubSeq(s, n + 1, Len(s))

Take(s, n) == IF n >= Len(s) THEN s ELSE SubSeq(s, 1, n)

StartsWith(s, p) == Len(s) >= Len(p) /\ SubSeq(s, 1, Len(p)) = p

Contains(s, c) == \E i \in 1..Len(s) : s[i] = c

\* 0-based position of the first c in s, or Len(s) when there is none
FirstIndexOf(s, c) ==
    IF Contains(s, c) THEN (CHOOSE i \in 1..Len(s) : s[i] = c /\ \A j \in 1..(i - 1) : s[j] # c) - 1
    ELSE Len(s)

RECURSIVE Concat(_)
Concat(ss) == IF ss = <<>> THEN <<>> ELSE Head(ss) \o Concat(Tail(ss))

(***************************************************************************)
(* Characters                                                              *)
(***************************************************************************)
Digits == <<"0","1","2","3","4","5","6","7","8","9">>
UpperLetters == <<"A","B","C","D","E","F","G","H","I","J","K","L","M",
                  "N","O","P","Q","R","S","T","U","V","W","X","Y","Z">>
LowerLetters == <<"a","b","c","d","e","f","g","h","i","j","k","l","m",
                  "n","o","p","q","r","s","t","u","v","w","x","y","z">>

Range(s) == {s[i] : i \in 1..Len(s)}

UpperSet == Range(UpperLetters)
LowerSet == Range(LowerLetters)
DigitSet == Range(Digits)

IsUpperChar(c) == c \in UpperSet
IsLowerChar(c) == c \in LowerSet
IsLetter(c) == IsUpperChar(c) \/ IsLowerChar(c)
IsDigitChar(c) == c \in DigitSet

PosIn(alphabet, c) == CHOOSE i \in 1..Len(alphabet) : alphabet[i] = c

\* String.prototype.toUpperCase / toLowerCase on the characters the model uses
UpperOf == [c \in LowerSet |-> UpperLetters[PosIn(LowerLetters, c)]]
LowerOf == [c \in UpperSet |-> LowerLetters[PosIn(UpperLetters, c)]]
ToUpperChar(c) == IF IsLowerChar(c) THEN UpperOf[c] ELSE c
ToLowerChar(c) == IF IsUpperChar(c) THEN LowerOf[c] ELSE c
ToUpperCase(s) == [i \in 1..Len(s) |-> ToUpperChar(s[i])]
ToLowerCase(s) == [i \in 1..Len(s) |-> ToLowerChar(s[i])]

IsWhitespace(c) == c \in {" ", "\t", "\n", "\r"}

(***************************************************************************)
(* Num: non-negative integers of up to 64 bits, as the code's numbers      *)
(***************************************************************************)
LimbBase == 2^16

Num0 == <<0, 0, 0, 0>>

\* a small integer (below 2^31) as a Num
ToNum(i) == <<i % LimbBase, (i \div LimbBase) % LimbBase, 0, 0>>

NumAdd(a, b) ==
    LET s1 == a[1] + b[1]
        s2 == a[2] + b[2] + (s1 \div LimbBase)
        s3 == a[3] + b[3] + (s2 \div LimbBase)
        s4 == a[4] + b[4] + (s3 \div LimbBase)
    IN <<s1 % LimbBase, s2 % LimbBase, s3 % LimbBase, s4 % LimbBase>>

\* a * k for 0 <= k <= 256
NumMulSmall(a, k) ==
    LET p1 == a[1] * k
        p2 == a[2] * k + (p1 \div LimbBase)
        p3 == a[3] * k + (p2 \div LimbBase)
        p4 == a[4] * k + (p3 \div LimbBase)
    IN <<p1 % LimbBase, p2 % LimbBase, p3 % LimbBase, p4 % LimbBase>>

\* Math.floor(a / k) for 1 <= k <= 256
NumDivSmall(a, k) ==
    LET r4 == a[4] % k
        c3 == r4 * LimbBase + a[3]
        r3 == c3 % k
        c2 == r3 * LimbBase + a[2]
        r2 == c2 % k
        c1 == r2 * LimbBase + a[1]
    IN <<c1 \div k, c2 \div k, c3 \div k, a[4] \div k>>

\* a % k for 1 <= k <= 256
NumModSmall(a, k) ==
    LET r4 == a[4] % k
        r3 == (r4 * LimbBase + a[3]) % k
        r2 == (r3 * LimbBase + a[2]) % k
    IN (r2 * LimbBase + a[1]) % k

NumLt(a, b) ==
    \/ a[4] < b[4]
    \/ a[4] = b[4] /\ a[3] < b[3]
    \/ a[4] = b[4] /\ a[3] = b[3] /\ a[2] < b[2]
    \/ a[4] = b[4] /\ a[3] = b[3] /\ a[2] = b[2] /\ a[1] < b[1]

NumLeq(a, b) == a = b \/ NumLt(a, b)

\* Number.MAX_SAFE_INTEGER = 2^53 - 1
MAX_SAFE_INTEGER == <<LimbBase - 1, LimbBase - 1, LimbBase - 1, 31>>

\* Number.isSafeInteger on a non-negative integer
IsSafeInteger(n) == NumLeq(n, MAX_SAFE_INTEGER)

\* A JavaScript number as an argument: a non-negative integer (mag), or one of
\* the kinds assertSafeUint rejects by kind.
Nat64(n) == [kind |-> "nat", mag |-> n]

(***************************************************************************)
(* Hex utils (http.ts 282-296)                                             *)
(***************************************************************************)
HexDigits == <<"0","1","2","3","4","5","6","7","8","9","a","b","c","d","e","f">>

HexSet == Range(HexDigits)
HexValOf == [c \in HexSet |-> PosIn(HexDigits, c) - 1]

IsHexChar(c) == ToLowerChar(c) \in HexSet

\* Number.parseInt(c, 16)
HexVal(c) == HexValOf[ToLowerChar(c)]

hexToBytes(hex) ==
    [i \in 1..(Len(hex) \div 2) |-> HexVal(hex[2 * i - 1]) * 16 + HexVal(hex[2 * i])]

bytesToHex(bytes) ==
    Concat([i \in 1..Len(bytes) |->
              <<HexDigits[(bytes[i] \div 16) + 1], HexDigits[(bytes[i] % 16) + 1]>>])

(***************************************************************************)
(* VarInt (http.ts 306-394)                                                *)
(***************************************************************************)
assertSafeUint(n) ==
    IF n.kind # "nat" THEN Err("TypeError")
    ELSE IF ~IsSafeInteger(n.mag) THEN Err("RangeError")
    ELSE Ok(n.mag)

\* the encoder as a do-while loop: a continuation byte is pushed before n is
\* first compared with 0x80, so that every encoding has two bytes or more
RECURSIVE VarIntEncodeLoop_DoWhile(_, _)
VarIntEncodeLoop_DoWhile(n, out) ==
    IF ~NumLt(n, ToNum(128)) \/ out = <<>>
    THEN LET low7 == NumModSmall(n, 128)
         IN VarIntEncodeLoop_DoWhile(NumDivSmall(n, 128), Append(out, low7 + 128))
    ELSE Append(out, n[1])

\* the encoder with 32-bit bitwise operators (n & 0x7f, n >>> 7): only the low
\* 32 bits of n survive
RECURSIVE VarIntEncodeLoop_Bitwise32(_, _)
VarIntEncodeLoop_Bitwise32(n, out) ==
    LET n32 == <<n[1], n[2], 0, 0>>
    IN IF ~NumLt(n32, ToNum(128))
       THEN VarIntEncodeLoop_Bitwise32(NumDivSmall(n32, 128), Append(out, (n32[1] % 128) + 128))
       ELSE Append(out, n32[1])

RECURSIVE VarIntEncodeLoop(_, _)
VarIntEncodeLoop(n, out) ==
    IF ~NumLt(n, ToNum(128))
    THEN LET low7 == NumModSmall(n, 128)
         IN VarIntEncodeLoop(NumDivSmall(n, 128), Append(out, low7 + 128))
    ELSE Append(out, n[1])

VarIntEncode(value) ==
    LET a == assertSafeUint(value)
    IN IF ~a.ok THEN a ELSE Ok(VarIntEncodeLoop(value.mag, <<>>))

\* the decoder without the underflow check: a byte read past the end is
\* undefined, (undefined & 0x7f) is 0 and (undefined & 0x80) is 0, so it ends
\* the loop as a terminator would
RECURSIVE VarIntDecodeLoop_NoUnderflowCheck(_, _, _, _, _)
VarIntDecodeLoop_NoUnderflowCheck(source, offset, value, multiplier, length) ==
    LET byte == IF offset + length >= Len(source) THEN 0 ELSE source[offset + length + 1]
        slice == byte % 128
        value2 == NumAdd(value, NumMulSmall(multiplier, slice))
    IN IF ~IsSafeInteger(value2)
       THEN Err("RangeError: value exceeds Number.MAX_SAFE_INTEGER")
       ELSE IF byte < 128
       THEN Ok([value |-> value2, length |-> length + 1,
                bytes |-> Take(Drop(source, offset), length + 1)])
       ELSE LET m2 == NumMulSmall(multiplier, 128)
            IN IF ~IsSafeInteger(m2)
               THEN Err("RangeError: multiplier overflow")
               ELSE VarIntDecodeLoop_NoUnderflowCheck(source, offset, value2, m2, length + 1)

\* the decoder with 32-bit bitwise operators (value |= slice << shift): sums
\* are kept modulo 2^32 and nothing is checked for overflow
RECURSIVE VarIntDecodeLoop_Bitwise32(_, _, _, _, _)
VarIntDecodeLoop_Bitwise32(source, offset, value, multiplier, length) ==
    IF offset + length >= Len(source) THEN Err("VarInt.decode: buffer underflow")
    ELSE LET byte == source[offset + length + 1]
             slice == byte % 128
             sum == NumAdd(value, NumMulSmall(multiplier, slice))
             value2 == <<sum[1], sum[2], 0, 0>>
             prod == NumMulSmall(multiplier, 128)
         IN IF byte < 128
            THEN Ok([value |-> value2, length |-> length + 1,
                     bytes |-> SubSeq(source, offset + 1, offset + length + 1)])
            ELSE VarIntDecodeLoop_Bitwise32(source, offset, value2, <<prod[1], prod[2], 0, 0>>,
                                            length + 1)

RECURSIVE VarIntDecodeLoop(_, _, _, _, _)
VarIntDecodeLoop(source, offset, value, multiplier, length) ==
    IF offset + length >= Len(source) THEN Err("VarInt.decode: buffer underflow")
    ELSE LET byte == source[offset + length + 1]
             slice == byte % 128
             value2 == NumAdd(value, NumMulSmall(multiplier, slice))
         IN IF ~IsSafeInteger(value2)
            THEN Err("RangeError: value exceeds Number.MAX_SAFE_INTEGER")
            ELSE IF byte < 128
            THEN Ok([value |-> value2, length |-> length + 1,
                     bytes |-> SubSeq(source, offset + 1, offset + length + 1)])
            ELSE LET m2 == NumMulSmall(multiplier, 128)
                 IN IF ~IsSafeInteger(m2)
                    THEN Err("RangeError: multiplier overflow")
                    ELSE VarIntDecodeLoop(source, offset, value2, m2, length + 1)

VarIntDecode(source, offset) == VarIntDecodeLoop(source, offset, Num0, ToNum(1), 0)

\* the constructor keeping the whole source as its bytes
NewVarInt_KeepsSource(source) ==
    IF source.kind = "bytes"
    THEN LET decoded == VarIntDecode(source.bytes, 0)
         IN IF ~decoded.ok THEN decoded
            ELSE Ok([value |-> decoded.val.value, bytes |-> source.bytes])
    ELSE LET bytes == VarIntEncode(source)
         IN IF ~bytes.ok THEN bytes ELSE Ok([value |-> source.mag, bytes |-> bytes.val])

\* new VarInt(source): source is a number, or a Uint8Array [kind |-> "bytes", bytes]
NewVarInt(source) ==
    IF source.kind = "bytes"
    THEN LET decoded == VarIntDecode(source.bytes, 0)
         IN IF ~decoded.ok THEN decoded
            ELSE Ok([value |-> decoded.val.value, bytes |-> decoded.val.bytes])
    ELSE LET bytes == VarIntEncode(source)
         IN IF ~bytes.ok THEN bytes ELSE Ok([value |-> source.mag, bytes |-> bytes.val])

(***************************************************************************)
(* Base36 (http.ts 406-496)                                                *)
(***************************************************************************)
BASE36_ALPHABET == Digits \o UpperLetters

\* the map of an alphabet where the lowercase letters are digits of their own
\* (36..61), as in base 62
BASE36_MAP_CaseSensitive ==
    [ch \in DigitSet \cup UpperSet \cup LowerSet |->
        IF IsLowerChar(ch) THEN PosIn(BASE36_ALPHABET, ToUpperChar(ch)) - 1 + 26
        ELSE PosIn(BASE36_ALPHABET, ch) - 1]

\* BASE36_MAP[ch]: both cases map to the same digit
BASE36_MAP ==
    [ch \in DigitSet \cup UpperSet \cup LowerSet |-> PosIn(BASE36_ALPHABET, ToUpperChar(ch)) - 1]

testBase36(s) == Len(s) >= 1 /\ \A i \in 1..Len(s) : IsLetter(s[i]) \/ IsDigitChar(s[i])

\* number of leading elements of s equal to z
RECURSIVE CountLeading(_, _)
CountLeading(s, z) ==
    IF s # <<>> /\ Head(s) = z THEN 1 + CountLeading(Tail(s), z) ELSE 0

\* while (carry > 0) { digits.push(carry % base); carry = floor(carry / base) }
RECURSIVE PushCarry(_, _, _)
PushCarry(digits, carry, base) ==
    IF carry > 0 THEN PushCarry(Append(digits, carry % base), carry \div base, base)
    ELSE digits

\* the inner loop without the trailing while (carry > 0): the carry out of the
\* top digit is lost
RECURSIVE EncodeBase36Inner_CarryLost(_, _, _)
EncodeBase36Inner_CarryLost(digits, j, carry) ==
    IF j > Len(digits) THEN digits
    ELSE LET c == carry + digits[j] * 256
         IN EncodeBase36Inner_CarryLost([digits EXCEPT ![j] = c % 36], j + 1, c \div 36)

\* encodeBase36's inner loop over digits (little-endian base 36), from index j
RECURSIVE EncodeBase36Inner(_, _, _)
EncodeBase36Inner(digits, j, carry) ==
    IF j > Len(digits) THEN PushCarry(digits, carry, 36)
    ELSE LET c == carry + digits[j] * 256
         IN EncodeBase36Inner([digits EXCEPT ![j] = c % 36], j + 1, c \div 36)

\* encodeBase36's outer loop over the bytes from index i (1-based)
RECURSIVE EncodeBase36Outer(_, _, _)
EncodeBase36Outer(bytes, i, digits) ==
    IF i > Len(bytes) THEN digits
    ELSE EncodeBase36Outer(bytes, i + 1, EncodeBase36Inner(digits, 1, bytes[i]))

\* the encoder with toString(36) digits: lowercase output
encodeBase36_Lowercase(bytes) ==
    IF Len(bytes) = 0 THEN Err("encodeBase36: empty input")
    ELSE LET zeros == CountLeading(bytes, 0)
         IN IF zeros = Len(bytes) THEN Ok(Repeat("0", Len(bytes)))
            ELSE LET digits == EncodeBase36Outer(bytes, zeros + 1, <<0>>)
                 IN Ok(Repeat("0", zeros) \o
                       [k \in 1..Len(digits) |->
                          ToLowerChar(BASE36_ALPHABET[digits[Len(digits) + 1 - k] + 1])])

encodeBase36(bytes) ==
    IF Len(bytes) = 0 THEN Err("encodeBase36: empty input")
    ELSE LET zeros == CountLeading(bytes, 0)
         IN IF zeros = Len(bytes) THEN Ok(Repeat("0", Len(bytes)))
            ELSE LET digits == EncodeBase36Outer(bytes, zeros + 1, <<0>>)
                 IN Ok(Repeat("0", zeros) \o
                       [k \in 1..Len(digits) |-> BASE36_ALPHABET[digits[Len(digits) + 1 - k] + 1]])

\* decodeBase36's inner loop over bytes (little-endian base 256), from index j
RECURSIVE DecodeBase36Inner(_, _, _)
DecodeBase36Inner(bytes, j, carry) ==
    IF j > Len(bytes) THEN PushCarry(bytes, carry, 256)
    ELSE LET c == carry + bytes[j] * 36
         IN DecodeBase36Inner([bytes EXCEPT ![j] = c % 256], j + 1, c \div 256)

\* decodeBase36's outer loop over the characters from index i (1-based)
RECURSIVE DecodeBase36Outer(_, _, _)
DecodeBase36Outer(base36, i, bytes) ==
    IF i > Len(base36) THEN bytes
    ELSE DecodeBase36Outer(base36, i + 1, DecodeBase36Inner(bytes, 1, BASE36_MAP[base36[i]]))

\* the decoder that goes through one big number: leading zero bytes are lost
decodeBase36_DropZeros(base36) ==
    IF Len(base36) = 0 THEN Err("TypeError: decodeBase36: expected a non-empty string")
    ELSE IF ~testBase36(base36) THEN Err("decodeBase36: invalid base36 string")
    ELSE LET zeros == CountLeading(base36, "0")
         IN IF zeros = Len(base36) THEN Ok(<<0>>)
            ELSE Ok(Reverse(DecodeBase36Outer(base36, zeros + 1, <<0>>)))

decodeBase36(base36) ==
    IF Len(base36) = 0 THEN Err("TypeError: decodeBase36: expected a non-empty string")
    ELSE IF ~testBase36(base36) THEN Err("decodeBase36: invalid base36 string")
    ELSE LET zeros == CountLeading(base36, "0")
         IN IF zeros = Len(base36) THEN Ok(Repeat(0, zeros))
            ELSE LET bytes == DecodeBase36Outer(base36, zeros + 1, <<0>>)
                 IN Ok(Repeat(0, zeros) \o Reverse(bytes))

(***************************************************************************)
(* URL-safe base64 helpers (http.ts 502-552)                               *)
(***************************************************************************)
B64_ALPHABET == UpperLetters \o LowerLetters \o Digits \o <<"+", "/">>

B64Set == Range(B64_ALPHABET)
B64ValOf == [c \in B64Set |-> PosIn(B64_ALPHABET, c) - 1]

IsB64Char(c) == c \in B64Set

B64Val(c) == B64ValOf[c]

ReplaceChar(s, from, to) == [i \in 1..Len(s) |-> IF s[i] = from THEN to ELSE s[i]]

RemoveChar(s, c) == SelectSeq(s, LAMBDA x : x # c)

\* URL-safe -> standard base64, padded with '=' to a multiple of 4
decodeUrl64(encoded) ==
    LET std == ReplaceChar(ReplaceChar(encoded, "-", "+"), "_", "/")
    IN std \o Repeat("=", (4 - (Len(std) % 4)) % 4)

\* standard base64 -> URL-safe, padding removed
encodeUrl64(base64) ==
    ReplaceChar(ReplaceChar(RemoveChar(base64, "="), "+", "-"), "/", "_")

\* btoa / Buffer.toString("base64"): standard base64 with padding
RECURSIVE bytesToBase64(_)
bytesToBase64(bytes) ==
    IF Len(bytes) = 0 THEN <<>>
    ELSE IF Len(bytes) = 1
    THEN <<B64_ALPHABET[(bytes[1] \div 4) + 1], B64_ALPHABET[((bytes[1] % 4) * 16) + 1], "=", "=">>
    ELSE IF Len(bytes) = 2
    THEN <<B64_ALPHABET[(bytes[1] \div 4) + 1],
           B64_ALPHABET[((bytes[1] % 4) * 16 + (bytes[2] \div 16)) + 1],
           B64_ALPHABET[((bytes[2] % 16) * 4) + 1], "=">>
    ELSE <<B64_ALPHABET[(bytes[1] \div 4) + 1],
           B64_ALPHABET[((bytes[1] % 4) * 16 + (bytes[2] \div 16)) + 1],
           B64_ALPHABET[((bytes[2] % 16) * 4 + (bytes[3] \div 64)) + 1],
           B64_ALPHABET[(bytes[3] % 64) + 1]>> \o bytesToBase64(Drop(bytes, 3))

\* the bytes of base64 data characters (no padding, length % 4 # 1); the bits
\* left over in a final group of 2 or 3 characters are discarded
RECURSIVE B64DecodeData(_)
B64DecodeData(data) ==
    IF Len(data) < 2 THEN <<>>
    ELSE LET v1 == B64Val(data[1])
             v2 == B64Val(data[2])
         IN IF Len(data) = 2 THEN <<v1 * 4 + (v2 \div 16)>>
            ELSE LET v3 == B64Val(data[3])
                 IN IF Len(data) = 3
                    THEN <<v1 * 4 + (v2 \div 16), (v2 % 16) * 16 + (v3 \div 4)>>
                    ELSE <<v1 * 4 + (v2 \div 16), (v2 % 16) * 16 + (v3 \div 4),
                           (v3 % 4) * 64 + B64Val(data[4])>> \o B64DecodeData(Drop(data, 4))

\* atob (forgiving-base64 decode): whitespace removed, up to two '=' removed from
\* the end of a string whose length is a multiple of 4, then a length of 1 mod 4
\* or any character outside the alphabet is an InvalidCharacterError
base64ToBytes(base64) ==
    LET noWs == SelectSeq(base64, LAMBDA c : ~IsWhitespace(c))
        n == Len(noWs)
        pad == IF n % 4 = 0 /\ n >= 1 /\ noWs[n] = "="
               THEN (IF n >= 2 /\ noWs[n - 1] = "=" THEN 2 ELSE 1)
               ELSE 0
        data == Take(noWs, n - pad)
    IN IF Len(data) % 4 = 1 \/ \E i \in 1..Len(data) : ~IsB64Char(data[i])
       THEN Err("Invalid base64 encoding")
       ELSE Ok(B64DecodeData(data))

(***************************************************************************)
(* Optional values (undefined | value)                                     *)
(***************************************************************************)
None == [some |-> FALSE]
Some(v) == [some |-> TRUE, val |-> v]

(***************************************************************************)
(* ObjectId (http.ts 223-276)                                              *)
(***************************************************************************)
\* the constructor with the test /^[0-9a-f]+$/: uppercase hex is refused
ObjectIdFromHex_LowercaseOnly(hexStr) ==
    IF Len(hexStr) # 24 \/ \E i \in 1..Len(hexStr) : ~(IsHexChar(hexStr[i]) /\ ~IsUpperChar(hexStr[i]))
    THEN Err("Invalid ObjectId hex string")
    ELSE Ok([bytes |-> hexToBytes(hexStr)])

\* new ObjectId(hex string)
ObjectIdFromHex(hexStr) ==
    IF Len(hexStr) # 24 \/ \E i \in 1..Len(hexStr) : ~IsHexChar(hexStr[i])
    THEN Err("Invalid ObjectId hex string")
    ELSE Ok([bytes |-> hexToBytes(hexStr)])

\* new ObjectId(Uint8Array): the bytes are copied
ObjectIdFromBytes(b) ==
    IF Len(b) # 12 THEN Err("Invalid ObjectId bytes length")
    ELSE Ok([bytes |-> b])

toHexString(oid) == bytesToHex(oid.bytes)

\* the loop of equals over the bytes from index i (1-based)
RECURSIVE EqualsLoop(_, _, _)
EqualsLoop(bytes, otherBytes, i) ==
    IF i > Len(bytes) THEN TRUE
    ELSE IF bytes[i] # otherBytes[i] THEN FALSE
    ELSE EqualsLoop(bytes, otherBytes, i + 1)

\* oid.equals(other), other an ObjectId's bytes or a Uint8Array
equals(oid, otherBytes) ==
    IF Len(oid.bytes) # Len(otherBytes) THEN FALSE ELSE EqualsLoop(oid.bytes, otherBytes, 1)

(***************************************************************************)
(* Identifier validation and extraction (http.ts 208-212, 564-602)         *)
(***************************************************************************)
RETAILID_PREFIXES == {<<"1", "a", "4">>, <<"a", "b", "c">>}

\* days from 1970-01-01 to 2012-01-01 and to 2052-01-01
DAYS_TO_2012 == 15340
DAYS_TO_2052 == 29950

\* 86400 = 240 * 180 * 2 seconds a day
DaysToSeconds(d) == NumMulSmall(NumMulSmall(NumMulSmall(ToNum(d), 240), 180), 2)

MIN_OBJECTID_TIMESTAMP == DaysToSeconds(DAYS_TO_2012)
MAX_OBJECTID_TIMESTAMP == DaysToSeconds(DAYS_TO_2052)

\* bytes[0] * 2^24 + bytes[1] * 2^16 + bytes[2] * 256 + bytes[3]
TimestampOf(bytes) ==
    NumAdd(NumAdd(NumMulSmall(NumMulSmall(NumMulSmall(ToNum(bytes[1]), 256), 256), 256),
                  NumMulSmall(NumMulSmall(ToNum(bytes[2]), 256), 256)),
           NumAdd(NumMulSmall(ToNum(bytes[3]), 256), ToNum(bytes[4])))

\* the upper bound taken as exclusive
UpperBoundOk_Exclusive(timestamp) == NumLt(timestamp, MAX_OBJECTID_TIMESTAMP)

UpperBoundOk(timestamp) == NumLeq(timestamp, MAX_OBJECTID_TIMESTAMP)

isValidObjectIdTimestamp(bytes) ==
    IF Len(bytes) < 4 THEN FALSE
    ELSE LET timestamp == TimestampOf(bytes)
         IN NumLeq(MIN_OBJECTID_TIMESTAMP, timestamp) /\ UpperBoundOk(timestamp)

hasKnownPrefix(hexId) == \E prefix \in RETAILID_PREFIXES : StartsWith(hexId, prefix)

\* mode mongo accepting as mode any does: the timestamp is not looked at
getBatchIdAndIndex_MongoUnchecked(buffer, mode) ==
    IF Len(buffer) < 13 THEN Err("Buffer too short")
    ELSE LET idBytes == SubSeq(buffer, 1, 12)
             hexId == bytesToHex(idBytes)
         IN IF ~hasKnownPrefix(hexId) /\ mode = "strict"
            THEN Err("Unknown RetailID prefix")
            ELSE LET batchId == ObjectIdFromHex(hexId)
                     decoded == VarIntDecode(Drop(buffer, 12), 0)
                 IN IF ~batchId.ok THEN batchId
                    ELSE IF ~decoded.ok THEN decoded
                    ELSE Ok([batchId |-> batchId.val, index |-> decoded.val.value])

\* the index must take up the rest of the buffer: bytes after the VarInt are refused
getBatchIdAndIndex_WholeBuffer(buffer, mode) ==
    IF Len(buffer) < 13 THEN Err("Buffer too short")
    ELSE LET idBytes == SubSeq(buffer, 1, 12)
             hexId == bytesToHex(idBytes)
         IN IF ~hasKnownPrefix(hexId) /\ mode = "strict"
            THEN Err("Unknown RetailID prefix")
            ELSE IF ~hasKnownPrefix(hexId) /\ mode = "mongo" /\ ~isValidObjectIdTimestamp(idBytes)
            THEN Err("Invalid mongo timestamp in ObjectId")
            ELSE LET batchId == ObjectIdFromHex(hexId)
                     decoded == VarIntDecode(Drop(buffer, 12), 0)
                 IN IF ~batchId.ok THEN batchId
                    ELSE IF ~decoded.ok THEN decoded
                    ELSE IF 12 + decoded.val.length # Len(buffer) THEN Err("Trailing bytes")
                    ELSE Ok([batchId |-> batchId.val, index |-> decoded.val.value])

\* the length check asks for the 12 identifier bytes only, and the index is
\* read leniently: a missing byte reads as 0 (undefined & 0x7f)
getBatchIdAndIndex_IdentifierOnly(buffer, mode) ==
    IF Len(buffer) < 12 THEN Err("Buffer too short")
    ELSE LET idBytes == SubSeq(buffer, 1, 12)
             hexId == bytesToHex(idBytes)
         IN IF ~hasKnownPrefix(hexId) /\ mode = "strict"
            THEN Err("Unknown RetailID prefix")
            ELSE IF ~hasKnownPrefix(hexId) /\ mode = "mongo" /\ ~isValidObjectIdTimestamp(idBytes)
            THEN Err("Invalid mongo timestamp in ObjectId")
            ELSE LET batchId == ObjectIdFromHex(hexId)
                     decoded == VarIntDecode(Drop(buffer, 12) \o <<0>>, 0)
                 IN IF ~batchId.ok THEN batchId
                    ELSE IF ~decoded.ok THEN decoded
                    ELSE Ok([batchId |-> batchId.val, index |-> decoded.val.value])

getBatchIdAndIndex(buffer, mode) ==
    IF Len(buffer) < 13 THEN Err("Buffer too short")
    ELSE LET idBytes == SubSeq(buffer, 1, 12)
             hexId == bytesToHex(idBytes)
         IN IF ~hasKnownPrefix(hexId) /\ mode = "strict"
            THEN Err("Unknown RetailID prefix")
            ELSE IF ~hasKnownPrefix(hexId) /\ mode = "mongo" /\ ~isValidObjectIdTimestamp(idBytes)
            THEN Err("Invalid mongo timestamp in ObjectId")
            ELSE LET batchId == ObjectIdFromHex(hexId)
                     decoded == VarIntDecode(Drop(buffer, 12), 0)
                 IN IF ~batchId.ok THEN batchId
                    ELSE IF ~decoded.ok THEN decoded
                    ELSE Ok([batchId |-> batchId.val, index |-> decoded.val.value])

concatBytes(a, b) == a \o b

(***************************************************************************)
(* Short-code extraction and encoding detection (http.ts 620-663)          *)
(***************************************************************************)
RECURSIVE TrimStart(_)
TrimStart(s) == IF s # <<>> /\ IsWhitespace(Head(s)) THEN TrimStart(Tail(s)) ELSE s

Trim(s) == Reverse(TrimStart(Reverse(TrimStart(s))))

\* s.split(sep): every segment, the empty ones included
RECURSIVE Split(_, _)
Split(s, sep) ==
    LET k == FirstIndexOf(s, sep)
    IN IF k = Len(s) THEN <<s>> ELSE <<Take(s, k)>> \o Split(Drop(s, k + 1), sep)

\* length of the leading run of letters
RECURSIVE LetterRun(_)
LetterRun(s) == IF s # <<>> /\ IsLetter(Head(s)) THEN 1 + LetterRun(Tail(s)) ELSE 0

\* input.match(/^([a-zA-Z]+):\/\//): the scheme, or None
SchemeMatch(inp) ==
    LET k == LetterRun(inp)
    IN IF k >= 1 /\ StartsWith(Drop(inp, k), <<":", "/", "/">>) THEN Some(Take(inp, k)) ELSE None

\* the hint tied to the scheme https itself, any other scheme giving none
SchemeHintOf_HttpsOnly(scheme) ==
    IF scheme = <<"H", "T", "T", "P", "S">> THEN Some("base36")
    ELSE IF scheme = <<"h", "t", "t", "p", "s">> THEN Some("base64")
    ELSE None

SchemeHintOf(scheme) ==
    IF scheme = ToUpperCase(scheme) THEN Some("base36")
    ELSE IF scheme = ToLowerCase(scheme) THEN Some("base64")
    ELSE None

\* the extraction without the cut at the first "?"
extractShortCode_KeepsQuery(raw) ==
    LET inp == Trim(raw)
        schemeMatch == SchemeMatch(inp)
    IN IF inp = <<>> THEN Err("Empty RetailID input")
       ELSE IF schemeMatch.some
       THEN LET scheme == schemeMatch.val
                afterSlashes == Drop(inp, Len(scheme) + 3)
                noHash == Split(afterSlashes, "#")[1]
                parts == SelectSeq(Split(noHash, "/"), LAMBDA seg : seg # <<>>)
            IN IF Len(parts) < 2 THEN Err("No path segment found in URL")
               ELSE Ok([shortCode |-> parts[Len(parts)], domain |-> Some(parts[1]),
                        schemeHint |-> SchemeHintOf(scheme)])
       ELSE Ok([shortCode |-> inp, domain |-> None, schemeHint |-> None])

extractShortCode(raw) ==
    LET inp == Trim(raw)
        schemeMatch == SchemeMatch(inp)
    IN IF inp = <<>> THEN Err("Empty RetailID input")
       ELSE IF schemeMatch.some
       THEN LET scheme == schemeMatch.val
                afterSlashes == Drop(inp, Len(scheme) + 3)
                noHash == Split(afterSlashes, "#")[1]
                noQuery == Split(noHash, "?")[1]
                parts == SelectSeq(Split(noQuery, "/"), LAMBDA seg : seg # <<>>)
            IN IF Len(parts) < 2 THEN Err("No path segment found in URL")
               ELSE Ok([shortCode |-> parts[Len(parts)], domain |-> Some(parts[1]),
                        schemeHint |-> SchemeHintOf(scheme)])
       ELSE Ok([shortCode |-> inp, domain |-> None, schemeHint |-> None])

\* the character test made before the scheme hint is looked at
detectEncodingHint_CharsFirst(rawShortCode, schemeHint) ==
    IF Contains(rawShortCode, "-") \/ Contains(rawShortCode, "_") THEN "base64"
    ELSE IF schemeHint.some THEN schemeHint.val
    ELSE "unknown"

detectEncodingHint(rawShortCode, schemeHint) ==
    IF schemeHint.some THEN schemeHint.val
    ELSE IF Contains(rawShortCode, "-") \/ Contains(rawShortCode, "_") THEN "base64"
    ELSE "unknown"

(***************************************************************************)
(* Resolver (http.ts 665-721)                                              *)
(***************************************************************************)
DecodeWith(shortCode, encoding) ==
    IF encoding = "base36" THEN decodeBase36(shortCode)
    ELSE base64ToBytes(decodeUrl64(shortCode))

\* the body of tryParseWithEncoding's try block
TryBody(shortCode, encoding, mode) ==
    LET buf == DecodeWith(shortCode, encoding)
    IN IF ~buf.ok THEN buf ELSE getBatchIdAndIndex(buf.val, mode)

\* the attempt without its try/catch: a codec error leaves the function
tryParseWithEncoding_NoCatch(shortCode, encoding, mode) ==
    LET r == TryBody(shortCode, encoding, mode)
    IN IF r.ok THEN Ok(Some(r.val)) ELSE r

\* try { ... } catch { return null }: completes with Some(ParsedId) or with None
\* (null); a completion Err(e) would be an exception leaving the function
tryParseWithEncoding(shortCode, encoding, mode) ==
    LET r == TryBody(shortCode, encoding, mode)
    IN IF r.ok THEN Ok(Some(r.val)) ELSE Ok(None)

strictOrder(hint) ==
    IF hint = "base36" THEN <<"base36", "base64">>
    ELSE IF hint = "base64" THEN <<"base64", "base36">>
    ELSE <<"base36", "base64">>

\* ParseOptions with the defaults applied (http.ts 692-693)
DefaultParseOptions == [validationFallback |-> "any", strictPrefixesOnly |-> FALSE]

\* the result naming base36 as its encoding whichever attempt produced it
ParsedRetailId_Base36Always(parsed, enc, domain, shortCode) ==
    [batchId |-> parsed.batchId, index |-> parsed.index, encoding |-> "base36",
     domain |-> domain, shortCode |-> shortCode]

ParsedRetailId(parsed, enc, domain, shortCode) ==
    [batchId |-> parsed.batchId, index |-> parsed.index, encoding |-> enc,
     domain |-> domain, shortCode |-> shortCode]

\* one for-loop of parseRetailId over order, from position k on: Ok(Some(result))
\* at the first success, Ok(None) when the loop ends, Err(e) if an attempt throws
RECURSIVE TryLoop(_, _, _, _, _)
TryLoop(shortCode, domain, order, k, mode) ==
    IF k > Len(order) THEN Ok(None)
    ELSE LET parsed == tryParseWithEncoding(shortCode, order[k], mode)
         IN IF ~parsed.ok THEN parsed
            ELSE IF parsed.val.some
            THEN Ok(Some(ParsedRetailId(parsed.val.val, order[k], domain, shortCode)))
            ELSE TryLoop(shortCode, domain, order, k + 1, mode)

parseRetailId(inp, opts) ==
    LET ex == extractShortCode(inp)
    IN IF ~ex.ok THEN ex
       ELSE LET shortCode == ex.val.shortCode
                order == strictOrder(detectEncodingHint(shortCode, ex.val.schemeHint))
                strict == TryLoop(shortCode, ex.val.domain, order, 1, "strict")
                fallback == TryLoop(shortCode, ex.val.domain, order, 1, opts.validationFallback)
            IN IF ~strict.ok THEN strict
               ELSE IF strict.val.some THEN Ok(strict.val.val)
               ELSE IF opts.strictPrefixesOnly
               THEN Err("Unrecognized RetailID (strict prefixes only)")
               ELSE IF ~fallback.ok THEN fallback
               ELSE IF fallback.val.some THEN Ok(fallback.val.val)
               ELSE Err("Unrecognized RetailID")

(***************************************************************************)
(* Encoding (http.ts 729-783)                                              *)
(***************************************************************************)
DEFAULT_DOMAIN == <<"1", "a", "4", ".", "c", "o", "m">>

\* EncodeOptions: domain is None or Some(string); base64 is a boolean
NoEncodeOptions == [domain |-> None, base64 |-> FALSE]

\* the buffer with its two parts in the wrong order
getBuffer_IndexFirst(batchId, index) ==
    LET a == assertSafeUint(index)
        varintBuf == VarIntEncode(index)
    IN IF ~a.ok THEN a
       ELSE IF ~varintBuf.ok THEN varintBuf
       ELSE Ok(concatBytes(varintBuf.val, batchId.bytes))

getBuffer(batchId, index) ==
    LET a == assertSafeUint(index)
        varintBuf == VarIntEncode(index)
    IN IF ~a.ok THEN a
       ELSE IF ~varintBuf.ok THEN varintBuf
       ELSE Ok(concatBytes(batchId.bytes, varintBuf.val))

\* options?.domain || "1a4.com": an empty domain is falsy too
DomainOf(opts) == IF opts.domain.some /\ opts.domain.val # <<>> THEN opts.domain.val ELSE DEFAULT_DOMAIN

\* the base-36 URL without the final toUpperCase()
Base36Url_NoUpperCase(domain, dataPart) ==
    <<"H", "T", "T", "P", "S", ":", "/", "/">> \o domain \o <<"/">> \o dataPart

\* the base-36 URL with scheme and data in uppercase and the domain as given
Base36Url_DomainAsGiven(domain, dataPart) ==
    <<"H", "T", "T", "P", "S", ":", "/", "/">> \o domain \o <<"/">> \o ToUpperCase(dataPart)

Base36Url(domain, dataPart) ==
    ToUpperCase(<<"H", "T", "T", "P", "S", ":", "/", "/">> \o domain \o <<"/">> \o dataPart)

\* the base-64 URL made lowercase as a whole, as the base-36 one is made uppercase
Base64Url_LowerCased(domain, dataPart) ==
    ToLowerCase(<<"h", "t", "t", "p", "s", ":", "/", "/">> \o domain \o <<"/">> \o dataPart)

Base64Url(domain, dataPart) ==
    <<"h", "t", "t", "p", "s", ":", "/", "/">> \o domain \o <<"/">> \o dataPart

getShortUrl(batchId, index, opts) ==
    LET buf == getBuffer(batchId, index)
    IN IF ~buf.ok THEN buf
       ELSE IF opts.base64
       THEN Ok(Base64Url(DomainOf(opts), encodeUrl64(bytesToBase64(buf.val))))
       ELSE LET dataPart == encodeBase36(buf.val)
            IN IF ~dataPart.ok THEN dataPart
               ELSE Ok(Base36Url(DomainOf(opts), dataPart.val))

\* the legacy flag read as "known prefixes only"
PairParseOptions_StrictPrefixesOnly(strict) ==
    [validationFallback |-> "any", strictPrefixesOnly |-> strict.some /\ strict.val]

\* RetailIdPair's constructor: the legacy strict flag (TRUE, FALSE or absent)
PairParseOptions(strict) ==
    [validationFallback |-> IF strict.some /\ strict.val THEN "mongo" ELSE "any",
     strictPrefixesOnly |-> FALSE]

(***************************************************************************)
(* HTTP client (http.ts 51-165) and the receive calls of the RetailId       *)
(* resource (resources/v2/retailId.ts 91-104).                              *)
(*                                                                         *)
(* A number the client computes from a header is [kind |-> "NaN"],         *)
(* [kind |-> "Infinity", neg] or [kind |-> "finite", neg, millis], millis  *)
(* being its magnitude in thousandths.  The URL handed to fetch is kept as *)
(* the record [path, query] of what joinUrl and toQuery serialise.         *)
(***************************************************************************)
\* the characters of code 32 to 126, in order (code 96 stands under a name)
ASCII_PRINTABLE ==
    <<" ", "!", "\"", "#", "$", "%", "&", "'", "(", ")", "*", "+", ",", "-", ".", "/">>
    \o <<"0", "1", "2", "3", "4", "5", "6", "7", "8", "9", ":", ";", "<", "=", ">", "?">>
    \o <<"@", "A", "B", "C", "D", "E", "F", "G", "H", "I", "J", "K", "L", "M", "N", "O">>
    \o <<"P", "Q", "R", "S", "T", "U", "V", "W", "X", "Y", "Z", "[", "\\", "]", "^", "_">>
    \o <<"grave", "a", "b", "c", "d", "e", "f", "g", "h", "i", "j", "k", "l", "m", "n", "o">>
    \o <<"p", "q", "r", "s", "t", "u", "v", "w", "x", "y", "z", "{", "|", "}", "~">>

CharCode(c) ==
    IF c = "\t" THEN 9 ELSE IF c = "\n" THEN 10 ELSE IF c = "\r" THEN 13
    ELSE 31 + PosIn(ASCII_PRINTABLE, c)

\* the characters encodeURIComponent leaves as they are
URI_UNESCAPED == UpperSet \cup LowerSet \cup DigitSet \cup {"-", "_", ".", "!", "~", "*", "'", "(", ")"}

HEX_UPPER == <<"0","1","2","3","4","5","6","7","8","9","A","B","C","D","E","F">>

\* encodeURIComponent on characters of one UTF-8 byte
encodeURIComponent(str) ==
    Concat([i \in 1..Len(str) |->
              IF str[i] \in URI_UNESCAPED THEN <<str[i]>>
              ELSE <<"%", HEX_UPPER[(CharCode(str[i]) \div 16) + 1],
                     HEX_UPPER[(CharCode(str[i]) % 16) + 1]>>])

RECEIVE_QR_PATH == <<"/", "r", "e", "t", "a", "i", "l", "i", "d", "/", "v", "2", "/", "r", "e", "c", "e", "i", "v", "e", "/", "q", "r", "/">>

\* the path template of receiveByShortCode (retailId.ts 95)
ReceiveByShortCodePath(shortCode) == RECEIVE_QR_PATH \o encodeURIComponent(shortCode)

\* receiveByShortCode's argument to http.request (retailId.ts 93-97)
ReceiveByShortCodeArgs(shortCode, licenseNumber) ==
    [method |-> "GET", path |-> ReceiveByShortCodePath(shortCode),
     licenseNumber |-> Some(licenseNumber), query |-> "none"]

\* the request made with the canonical short code of the parsed identifier and index
ReceiveByQrUrlArgs_Reencoded(parsed, licenseNumber) ==
    ReceiveByShortCodeArgs(encodeBase36(getBuffer(parsed.batchId, Nat64(parsed.index)).val).val,
                           licenseNumber)

\* receiveByQrUrl's call of receiveByShortCode (retailId.ts 103)
ReceiveByQrUrlArgs(parsed, licenseNumber) == ReceiveByShortCodeArgs(parsed.shortCode, licenseNumber)

\* joinUrl's treatment of the path: a leading "/" is added when missing
joinUrl(path) == IF StartsWith(path, <<"/">>) THEN path ELSE <<"/">> \o path

\* the URL of a request: path and query dictionary; the license is added to
\* the query when one is given (http.ts 88-108)
RequestUrl(args) ==
    [path |-> joinUrl(args.path),
     query |-> IF args.licenseNumber.some /\ args.licenseNumber.val # <<>>
               THEN [licenseNumber |-> args.licenseNumber] ELSE [licenseNumber |-> None]]

FetchCall(args, aborted) == [url |-> RequestUrl(args), method |-> args.method, aborted |-> aborted]

NaN == [kind |-> "NaN"]

RECURSIVE DigitsValue(_)
DigitsValue(ds) ==
    IF ds = <<>> THEN 0 ELSE DigitsValue(Take(ds, Len(ds) - 1)) * 10 + (PosIn(Digits, ds[Len(ds)]) - 1)

AllDigits(ds) == \A i \in 1..Len(ds) : IsDigitChar(ds[i])

\* Number(str) for the decimal literals: white space trimmed, an optional sign,
\* Infinity, or digits with an optional fraction (read to three places); the
\* empty string is 0 and anything else is NaN
NumberOf(str) ==
    LET trimmed == Trim(str)
        signed == trimmed # <<>> /\ Head(trimmed) \in {"+", "-"}
        neg == trimmed # <<>> /\ Head(trimmed) = "-"
        body == IF signed THEN Tail(trimmed) ELSE trimmed
        dot == FirstIndexOf(body, ".")
        intPart == Take(body, dot)
        fracPart == Drop(body, dot + 1)
    IN IF trimmed = <<>> THEN [kind |-> "finite", neg |-> FALSE, millis |-> 0]
       ELSE IF body = <<"I", "n", "f", "i", "n", "i", "t", "y">> THEN [kind |-> "Infinity", neg |-> neg]
       ELSE IF (intPart = <<>> /\ fracPart = <<>>) \/ ~AllDigits(intPart) \/ ~AllDigits(fracPart)
       THEN NaN
       ELSE [kind |-> "finite", neg |-> neg,
             millis |-> DigitsValue(intPart) * 1000 + DigitsValue(Take(fracPart \o <<"0", "0", "0">>, 3))]

\* const seconds = ra ? Number(ra) : NaN (http.ts 131-132)
RetryAfterSeconds(res) ==
    IF res.retryAfter.some /\ res.retryAfter.val # <<>> THEN NumberOf(res.retryAfter.val) ELSE NaN

\* Number.isFinite(seconds) && seconds > 0 (http.ts 133)
ShouldRetry(res) ==
    LET seconds == RetryAfterSeconds(res)
    IN res.status = 429 /\ seconds.kind = "finite" /\ ~seconds.neg /\ seconds.millis > 0

\* safeJson (http.ts 159-165): the parsed value, or the text when it does not parse
safeJson(body) == IF body = "json" THEN [as |-> "parsed", of |-> body] ELSE [as |-> "string", of |-> body]

IsOkStatus(status) == status >= 200 /\ status <= 299

\* MetrcHttp.parse (http.ts 146-156): the body is one of "empty", "json" (text
\* that parses), "text" (text that does not) and "unreadable" (res.text() rejects)
parse(res) ==
    LET raw == IF res.body = "unreadable" THEN "empty" ELSE res.body
        data == IF raw # "empty" /\ res.json THEN safeJson(raw)
                ELSE IF raw # "empty" THEN [as |-> "string", of |-> raw]
                ELSE [as |-> "undefined", of |-> raw]
    IN IF IsOkStatus(res.status) THEN Ok(data)
       ELSE Err([name |-> "MetrcApiError", status |-> res.status, details |-> data])

(***************************************************************************)
(* Inputs the callers draw from                                            *)
(***************************************************************************)
MaxLen == 4
MaxStrLen == 4
MaxSmallIndex == 300
MaxTailByte == 1
MaxContBytes == 9
MaxOffset == 2
MaxArrays == 4

ByteVals == {0, 1, 35, 36, 255}
ByteSeqs == UNION {[1..n -> ByteVals] : n \in 1..MaxLen}

Base36Chars == {"0", "1", "a", "A", "z", "Z"}
Base36Strings == UNION {[1..n -> Base36Chars] : n \in 1..MaxStrLen}

\* strings decodeBase36 must refuse: empty, or with a character outside [0-9A-Za-z]
InvalidBase36Strings ==
    {<<>>, <<"-">>, <<"a", "_">>, <<" ", "1">>, <<"1", "=">>, <<"Z", "!", "0">>, <<"+">>, <<"/">>,
     <<"1", "A", ".", "4">>}

LimbSamples == {0, 1, 127, 128, 16383, 16384, LimbBase - 1}
IndexSamples ==
    {<<a, b, c, d>> : a \in LimbSamples, b \in LimbSamples, c \in LimbSamples, d \in {0, 1, 31}}
    \cup {ToNum(i) : i \in 0..MaxSmallIndex}

\* 0, 1, 127, 128, 16384, 2^32, 2^53 - 1
BufferIndexes ==
    {ToNum(0), ToNum(1), ToNum(127), ToNum(128), ToNum(16384), <<0, 0, 1, 0>>, MAX_SAFE_INTEGER}

\* 0, 1, 128, 2^32, 2^53 - 1
UrlIndexes == {ToNum(0), ToNum(1), ToNum(128), <<0, 0, 1, 0>>, MAX_SAFE_INTEGER}

\* first four bytes of identifiers with a known prefix: 1a406030, abcdef01, 1a4fffff
KnownHeads == {<<26, 64, 96, 48>>, <<171, 205, 239, 1>>, <<26, 79, 255, 255>>}

\* without one: 1a306030, 0abcdef0, 00000000, ffffffff, 5f000000 (2020), and the
\* seconds around 2012-01-01 (4effa200) and 2052-01-01 (9a3cdd00)
UnknownHeads ==
    {<<26, 48, 96, 48>>, <<10, 188, 222, 240>>, <<0, 0, 0, 0>>, <<255, 255, 255, 255>>,
     <<95, 0, 0, 0>>,
     <<78, 255, 161, 255>>, <<78, 255, 162, 0>>, <<78, 255, 162, 1>>,
     <<154, 60, 220, 255>>, <<154, 60, 221, 0>>, <<154, 60, 221, 1>>}

IdOf(head, t) == head \o <<0, 32, 8, 16, 0, 0, 102, 9 + t>>

SampleIds == {IdOf(h, t) : h \in KnownHeads \cup UnknownHeads, t \in 0..MaxTailByte}

\* the README's identifier 1a4060300020081000006609
README_ID == IdOf(<<26, 64, 96, 48>>, 0)

\* identifiers handed to getShortUrl: 1a4..., abc..., 000..., 5f0... and 9a3cdd01...
UrlIds ==
    {IdOf(h, t) : h \in {<<26, 64, 96, 48>>, <<171, 205, 239, 1>>, <<0, 0, 0, 0>>,
                          <<95, 0, 0, 0>>, <<154, 60, 221, 1>>},
                  t \in 0..MaxTailByte}

EXAMPLE_DOMAIN == <<"R", "i", "d", ".", "E", "x", "a", "m", "p", "l", "e">>

EncodeOptionsSet ==
    {[domain |-> d, base64 |-> b] : d \in {None, Some(EXAMPLE_DOMAIN), Some(<<>>)}, b \in BOOLEAN}

ParseOptionsSet ==
    {[validationFallback |-> f, strictPrefixesOnly |-> s] : f \in {"mongo", "any"}, s \in BOOLEAN}

PairEncodeOptionsSet == {NoEncodeOptions, [domain |-> Some(EXAMPLE_DOMAIN), base64 |-> TRUE]}

LegacyStrictSet == {None, Some(TRUE), Some(FALSE)}

ValidationModes == {"strict", "mongo", "any"}

\* byte sequences handed to VarInt.decode: a head byte or none, a run of equal
\* bytes with the continuation bit, and a tail that may hold a terminator
ContBytes == {128, 129, 143, 144, 255}
VarIntHeads == {<<>>, <<1>>, <<143>>, <<255>>}
VarIntTails ==
    {<<>>, <<0>>, <<1>>, <<15>>, <<16>>, <<127>>, <<15, 7>>, <<143, 0>>, <<144, 0>>}
VarIntSources ==
    {h \o Repeat(c, k) \o t : h \in VarIntHeads, c \in ContBytes, k \in 0..MaxContBytes,
                              t \in VarIntTails}
VarIntOffsets == 0..MaxOffset

\* arguments of VarInt.encode(..): integers up to 2^53 - 1, then 2^53, 2^53 + 2
\* and 2^64 - 1, and -1, 1.5, NaN and Infinity
VarIntEncodeArguments ==
    {Nat64(n) : n \in IndexSamples \cup {<<0, 0, 0, 32>>, <<2, 0, 0, 32>>,
                                         <<LimbBase - 1, LimbBase - 1, LimbBase - 1, LimbBase - 1>>}}
    \cup {[kind |-> k, mag |-> ToNum(1)] : k \in {"negative", "fraction", "NaN", "Infinity"}}

\* arguments of new VarInt(..): numbers, among them 2^53, -1 and 1.5, and arrays
VarIntArguments ==
    {Nat64(n) : n \in BufferIndexes \cup {<<0, 0, 0, 32>>}}
    \cup {[kind |-> "negative", mag |-> ToNum(1)], [kind |-> "fraction", mag |-> ToNum(1)]}
    \cup {[kind |-> "bytes", bytes |-> b] : b \in VarIntSources}

\* arguments of new ObjectId(..): hex strings of 23, 24 and 25 characters, in
\* lowercase, uppercase and mixed case, with characters that are not hex
\* digits; byte arrays of 0, 11, 12 and 13 bytes
HEX_SAMPLE == bytesToHex(IdOf(<<171, 205, 239, 1>>, 0))
ObjectIdHexInputs ==
    {HEX_SAMPLE, ToUpperCase(HEX_SAMPLE), [HEX_SAMPLE EXCEPT ![2] = "B"], bytesToHex(README_ID),
     Take(HEX_SAMPLE, 23), HEX_SAMPLE \o <<"0">>, <<>>,
     [HEX_SAMPLE EXCEPT ![5] = "g"], [HEX_SAMPLE EXCEPT ![24] = " "], [HEX_SAMPLE EXCEPT ![1] = "G"]}
ObjectIdByteInputs ==
    {README_ID, IdOf(<<0, 0, 0, 0>>, 0), Take(README_ID, 11), README_ID \o <<0>>, <<>>}
WrittenValues == {255}

\* bytes appended to a buffer already handed to getBatchIdAndIndex: a
\* terminator, a byte that asks for more, and ten bytes no decoder accepts
AppendedBytes == {<<0>>, <<128>>, Repeat(255, 10)}

\* RetailId buffers: identifier ++ VarInt(index) ++ trailing bytes
Trailings == {<<>>, <<0>>, <<255, 1>>}
WellFormedBuffers ==
    {id \o VarIntEncode(Nat64(i)).val \o t : id \in SampleIds, i \in BufferIndexes, t \in Trailings}

\* too short, a VarInt that never terminates, a VarInt beyond 2^53 - 1
MalformedBuffers ==
    {Take(README_ID, 11), README_ID, README_ID \o <<128>>, README_ID \o <<255, 255>>,
     README_ID \o <<255, 255, 255, 255, 255, 255, 255, 16>>,
     README_ID \o <<128, 128, 128, 128, 128, 128, 128, 128, 0>>}

SampleBuffers == WellFormedBuffers \cup MalformedBuffers

\* buffers cut short of the 13 bytes: every prefix of length 0..12 of two buffers
TruncatedBuffers ==
    {Take(b, n) : b \in {README_ID \o <<1>>, IdOf(<<95, 0, 0, 0>>, 0) \o <<1>>}, n \in 0..12}

\* scanned strings: short codes of sample buffers in both encodings, and garbage
FreshIds ==
    {README_ID, IdOf(<<171, 205, 239, 1>>, 0), IdOf(<<95, 0, 0, 0>>, 0),
     IdOf(<<255, 255, 255, 255>>, 0), IdOf(<<154, 60, 221, 1>>, 0)}
FreshBuffers ==
    {id \o <<1>> : id \in FreshIds}
    \cup {README_ID \o VarIntEncode(Nat64(MAX_SAFE_INTEGER)).val, README_ID \o <<1, 0>>}
    \cup MalformedBuffers
    \cup {Take(README_ID, 1), Take(README_ID, 8)}

GarbageInput == <<"!", "!", "!", "n", "o", "t", "-", "v", "a", "l", "i", "d", "!", "!", "!">>

GarbageCodes ==
    {GarbageInput,
     <<"0">>, <<"a", "b", "c">>, <<"A", "-", "_", "=">>, <<"1", "a", " ", "4">>}

ShortCodes ==
    UNION {{encodeBase36(b).val, ToLowerCase(encodeBase36(b).val), encodeUrl64(bytesToBase64(b))} :
              b \in FreshBuffers}
    \cup GarbageCodes

UPPER_PREFIX == <<"H", "T", "T", "P", "S", ":", "/", "/", "1", "A", "4", ".", "C", "O", "M", "/">>
LOWER_PREFIX == ToLowerCase(UPPER_PREFIX)
MIXED_PREFIX == <<"H", "t", "t", "p", "s", ":", "/", "/", "1", "a", "4", ".", "c", "o", "m", "/">>

Wrappings(code) ==
    {code,
     <<" ">> \o code \o <<" ", " ">>,
     UPPER_PREFIX \o code,
     LOWER_PREFIX \o code,
     MIXED_PREFIX \o code,
     LOWER_PREFIX \o code \o <<"/">>,
     UPPER_PREFIX \o <<"x", "/">> \o code \o <<"?", "q", "=", "1", "/", "2", "#", "f">>,
     <<"h", "t", "t", "p", "s", ":", "/", "/">> \o code}

\* the README's short code in URLs of other shapes: other schemes, an empty
\* segment, "#" before "?", "?" before the only path segment, segments after
\* the code's, white space other than blanks, and strings that only look like URLs
README_CODE == encodeBase36(README_ID \o <<1>>).val
OtherShapes ==
    {<<"F", "T", "P", ":", "/", "/", "1", "A", "4", ".", "C", "O", "M", "/">> \o README_CODE,
     <<"x", ":", "/", "/", "d", "/">> \o README_CODE,
     <<"h", "T", "T", "p", ":", "/", "/", "d", "/">> \o README_CODE,
     UPPER_PREFIX \o <<"/">> \o README_CODE,
     LOWER_PREFIX \o README_CODE \o <<"#", "f", "?", "q">>,
     LOWER_PREFIX \o <<"?", "x", "/">> \o README_CODE,
     UPPER_PREFIX \o <<"a", "/", "b", "/">> \o README_CODE \o <<"/", "?", "/", "x">>,
     UPPER_PREFIX \o README_CODE \o <<"/", "x">>,
     <<"\t">> \o UPPER_PREFIX \o README_CODE \o <<"\r", "\n">>,
     <<"1", "A", "4", ".", "C", "O", "M", "/">> \o README_CODE,
     README_CODE \o <<"?", "q", "#", "f">>,
     <<"h", "2", ":", "/", "/", "d", "/">> \o README_CODE,
     <<"H", "T", "T", "P", "S", ":", "/">> \o README_CODE,
     <<"\n", " ">>}

InputStrings ==
    UNION {Wrappings(code) : code \in ShortCodes}
    \cup {<<>>, <<" ">>, <<"h", "t", "t", "p", "s", ":", "/", "/">>, UPPER_PREFIX,
          <<":", "/", "/", "a", "/", "b">>}
    \cup OtherShapes

\* a short code that decodes either way: the base-64 code of the README's
\* identifier followed by 01 00 has letters and digits only, and read as
\* base 36 it is 13 bytes with an unknown prefix and a VarInt that decodes
AMBIGUOUS_CODE == encodeUrl64(bytesToBase64(README_ID \o <<1, 0>>))

\* the inputs that are resolved a second time
ReparsedInputs ==
    UNION {Wrappings(code) : code \in {README_CODE, ToLowerCase(README_CODE), AMBIGUOUS_CODE} \cup GarbageCodes}
    \cup OtherShapes \cup {<<>>}

\* Retry-After headers: absent, empty, zero, positive, negative, fractional,
\* not a number, infinite, padded with blanks, and an HTTP date
RetryAfterValues ==
    {None, Some(<<>>), Some(<<"0">>), Some(<<"5">>), Some(<<"-", "1">>), Some(<<"0", ".", "5">>),
     Some(<<"a", "b", "c">>), Some(<<"I", "n", "f", "i", "n", "i", "t", "y">>),
     Some(<<" ", "3", " ">>), Some(<<"W", "e", "d", ",", " ", "2", "1", " ", "O", "c", "t", " ", "2", "0", "2", "6", " ", "0", "7", ":", "2", "8", ":", "0", "0", " ", "G", "M", "T">>)}

\* responses fetchImpl resolves with
Responses ==
    {[status |-> 429, retryAfter |-> ra, json |-> TRUE, body |-> "json"] : ra \in RetryAfterValues}
    \cup {[status |-> st, retryAfter |-> None, json |-> j, body |-> b] :
             st \in {200, 404}, j \in BOOLEAN, b \in {"empty", "json", "text", "unreadable"}}
    \cup {[status |-> 503, retryAfter |-> Some(<<"5">>), json |-> FALSE, body |-> "text"],
          [status |-> 200, retryAfter |-> Some(<<"5">>), json |-> TRUE, body |-> "json"]}

\* MetrcHttpOptions.timeoutMs: not given, 0, or 30 s
TimeoutOptions == {None, Some(0), Some(30000)}

\* arguments of direct http.request calls; query is "none", "valid" (primitive
\* values only) or "invalid" (a value that is an object)
RequestArgsSet ==
    {[method |-> "GET", path |-> <<"/", "p", "a", "c", "k", "a", "g", "e", "s", "/", "v", "2", "/", "a", "c", "t", "i", "v", "e">>,
      licenseNumber |-> Some(<<"C", "1", "1", "-", "0", "0", "0", "0", "0", "0", "1", "-", "L", "I", "C">>), query |-> q] : q \in {"none", "valid", "invalid"}}
    \cup {[method |-> "POST", path |-> <<"u", "n", "i", "t", "s", "o", "f", "m", "e", "a", "s", "u", "r", "e", "/", "v", "2", "/", "a", "c", "t", "i", "v", "e">>, licenseNumber |-> None, query |-> "none"]}

LICENSE == <<"C", "1", "1", "-", "0", "0", "0", "0", "0", "0", "1", "-", "L", "I", "C">>

\* strings handed to receiveByQrUrl: URLs and bare codes in both encodings,
\* standard base 64 with "/" and "=" in it, and strings that do not resolve
QrUrls ==
    {UPPER_PREFIX \o README_CODE,
     MIXED_PREFIX \o ToLowerCase(README_CODE) \o <<"?", "s", "=", "1">>,
     LOWER_PREFIX \o encodeUrl64(bytesToBase64(README_ID \o <<255, 1>>)),
     bytesToBase64(README_ID \o <<255, 1>>),
     encodeUrl64(bytesToBase64(IdOf(<<255, 255, 255, 255>>, 0) \o <<1>>)),
     GarbageInput, <<>>, LOWER_PREFIX}

(***************************************************************************)
(* The callers                                                             *)
(***************************************************************************)
Init ==
    /\ calls = <<>>
    /\ pc = "idle"
    /\ src = NoVal
    /\ shortUrl = NoVal
    /\ entry = NoVal
    /\ input = <<>>
    /\ options = NoVal
    /\ extracted = NoVal
    /\ attempts = <<>>
    /\ outcome = NoVal
    /\ reencoded = NoVal
    /\ heap = <<>>
    /\ obj = NoVal
    /\ made = NoVal
    /\ ids = <<>>
    /\ lastRet = NoVal
    /\ phase = "idle"
    /\ requests = <<>>
    /\ fetches = <<>>
    /\ responses = <<>>
    /\ timer = [started |-> FALSE, fired |-> FALSE, cleared |-> FALSE]
    /\ waits = <<>>
    /\ result = NoVal

Call(fn, arg, ret) == [fn |-> fn, arg |-> arg, ret |-> ret]

LastCall == calls[Len(calls)]

\* ---- codec callers ----
CallEncodeBase36 ==
    /\ pc = "idle" /\ calls = <<>>
    /\ \E b \in ByteSeqs \cup SampleBuffers \cup {<<>>} :
          calls' = <<Call("encodeBase36", b, encodeBase36(b))>>
    /\ UNCHANGED <<resolverVars, objectVars, httpVars>>

CallDecodeBase36 ==
    /\ pc = "idle" /\ calls = <<>>
    /\ \E s \in Base36Strings \cup InvalidBase36Strings :
          calls' = <<Call("decodeBase36", s, decodeBase36(s))>>
    /\ UNCHANGED <<resolverVars, objectVars, httpVars>>

\* decodeBase36(encodeBase36(b))
DecodeEncoded ==
    /\ Len(calls) = 1 /\ LastCall.fn = "encodeBase36" /\ LastCall.ret.ok
    /\ calls' = Append(calls, Call("decodeBase36", LastCall.ret.val, decodeBase36(LastCall.ret.val)))
    /\ UNCHANGED <<resolverVars, objectVars, httpVars>>

\* decodeBase36(s.toLowerCase()) and decodeBase36(s.toUpperCase()) after decodeBase36(s)
DecodeOtherCase ==
    /\ Len(calls) = 1 /\ LastCall.fn = "decodeBase36"
    /\ \E s \in {ToLowerCase(LastCall.arg), ToUpperCase(LastCall.arg)} :
          calls' = Append(calls, Call("decodeBase36", s, decodeBase36(s)))
    /\ UNCHANGED <<resolverVars, objectVars, httpVars>>

\* encodeBase36(decodeBase36(s))
EncodeDecoded ==
    /\ Len(calls) = 1 /\ LastCall.fn = "decodeBase36" /\ LastCall.ret.ok
    /\ calls' = Append(calls, Call("encodeBase36", LastCall.ret.val, encodeBase36(LastCall.ret.val)))
    /\ UNCHANGED <<resolverVars, objectVars, httpVars>>

CallVarIntEncode ==
    /\ pc = "idle" /\ calls = <<>>
    /\ \E n \in VarIntEncodeArguments :
          calls' = <<Call("VarInt.encode", n, VarIntEncode(n))>>
    /\ UNCHANGED <<resolverVars, objectVars, httpVars>>

\* VarInt.decode(VarInt.encode(n), 0)
VarIntDecodeEncoded ==
    /\ Len(calls) = 1 /\ LastCall.fn = "VarInt.encode" /\ LastCall.ret.ok
    /\ calls' = Append(calls, Call("VarInt.decode", [source |-> LastCall.ret.val, offset |-> 0],
                                   VarIntDecode(LastCall.ret.val, 0)))
    /\ UNCHANGED <<resolverVars, objectVars, httpVars>>

\* VarInt.decode(source, offset) on any bytes
CallVarIntDecode ==
    /\ pc = "idle" /\ calls = <<>>
    /\ \E source \in VarIntSources, offset \in VarIntOffsets :
          calls' = <<Call("VarInt.decode", [source |-> source, offset |-> offset],
                          VarIntDecode(source, offset))>>
    /\ UNCHANGED <<resolverVars, objectVars, httpVars>>

\* new VarInt(source)
CallNewVarInt ==
    /\ pc = "idle" /\ calls = <<>>
    /\ \E source \in VarIntArguments :
          calls' = <<Call("new VarInt", source, NewVarInt(source))>>
    /\ UNCHANGED <<resolverVars, objectVars, httpVars>>

CallGetBatchIdAndIndex ==
    /\ pc = "idle" /\ calls = <<>>
    /\ \E b \in SampleBuffers \cup TruncatedBuffers, mode \in ValidationModes :
          calls' = <<Call("getBatchIdAndIndex", [buffer |-> b, mode |-> mode],
                          getBatchIdAndIndex(b, mode))>>
    /\ UNCHANGED <<resolverVars, objectVars, httpVars>>

\* getBatchIdAndIndex(buffer ++ t, mode) after getBatchIdAndIndex(buffer, mode)
CallWithTrailing ==
    /\ Len(calls) = 1 /\ LastCall.fn = "getBatchIdAndIndex"
    /\ \E t \in AppendedBytes :
          LET b == concatBytes(LastCall.arg.buffer, t)
          IN calls' = Append(calls, Call("getBatchIdAndIndex", [buffer |-> b, mode |-> LastCall.arg.mode],
                                         getBatchIdAndIndex(b, LastCall.arg.mode)))
    /\ UNCHANGED <<resolverVars, objectVars, httpVars>>

\* ---- resolver callers ----
EntryParse == [fn |-> "parseRetailId"]
EntryPair(strict) == [fn |-> "RetailIdPair", strict |-> strict]

\* getShortUrl(batchId, index, options)
GetShortUrl ==
    /\ pc = "idle" /\ calls = <<>>
    /\ \E id \in UrlIds, i \in UrlIndexes, eo \in EncodeOptionsSet :
          /\ src' = [id |-> id, index |-> Nat64(i), opts |-> eo]
          /\ shortUrl' = getShortUrl(ObjectIdFromBytes(id).val, Nat64(i), eo)
    /\ pc' = "encoded"
    /\ UNCHANGED <<objectVars, httpVars, calls, entry, input, options, extracted, attempts, outcome, reencoded>>

\* parseRetailId(url, options) on the URL getShortUrl returned
ParseShortUrl ==
    /\ pc = "encoded" /\ shortUrl.ok
    /\ \E po \in ParseOptionsSet : options' = po
    /\ entry' = EntryParse
    /\ input' = shortUrl.val
    /\ pc' = "called"
    /\ UNCHANGED <<objectVars, httpVars, calls, src, shortUrl, extracted, attempts, outcome, reencoded>>

\* new RetailIdPair(url, strict) on the URL getShortUrl returned
PairFromShortUrl ==
    /\ pc = "encoded" /\ shortUrl.ok
    /\ \E strict \in LegacyStrictSet :
          /\ entry' = EntryPair(strict)
          /\ options' = PairParseOptions(strict)
    /\ input' = shortUrl.val
    /\ pc' = "called"
    /\ UNCHANGED <<objectVars, httpVars, calls, src, shortUrl, extracted, attempts, outcome, reencoded>>

\* parseRetailId(input, options) on a scanned string
ParseScanned ==
    /\ pc = "idle" /\ calls = <<>>
    /\ \E s \in InputStrings, po \in ParseOptionsSet :
          /\ input' = s
          /\ options' = po
    /\ entry' = EntryParse
    /\ pc' = "called"
    /\ UNCHANGED <<objectVars, httpVars, calls, src, shortUrl, extracted, attempts, outcome, reencoded>>

\* new RetailIdPair(input, strict) on a scanned string
PairFromScanned ==
    /\ pc = "idle" /\ calls = <<>>
    /\ \E s \in InputStrings, strict \in LegacyStrictSet :
          /\ input' = s
          /\ entry' = EntryPair(strict)
          /\ options' = PairParseOptions(strict)
    /\ pc' = "called"
    /\ UNCHANGED <<objectVars, httpVars, calls, src, shortUrl, extracted, attempts, outcome, reencoded>>

\* ---- parseRetailId, step by step ----
\* lines 689-699: extraction, hint, try-order
Extract ==
    /\ pc = "called"
    /\ LET ex == extractShortCode(input)
       IN IF ~ex.ok
          THEN /\ outcome' = ex
               /\ pc' = "done"
               /\ UNCHANGED extracted
          ELSE /\ extracted' =
                     [shortCode |-> ex.val.shortCode, domain |-> ex.val.domain,
                      schemeHint |-> ex.val.schemeHint,
                      order |-> strictOrder(detectEncodingHint(ex.val.shortCode, ex.val.schemeHint))]
               /\ pc' = "strict"
               /\ UNCHANGED outcome
    /\ UNCHANGED <<objectVars, httpVars, calls, src, shortUrl, entry, input, options, attempts, reencoded>>

\* one loop over the encodings, each tried strict and then with the fallback
NextAttempt_PerEncoding(order, n, fallback) ==
    [mode |-> IF n % 2 = 0 THEN "strict" ELSE fallback, enc |-> order[(n \div 2) + 1]]

\* the two loops in the other order: the fallback mode first, strict after it
NextAttempt_FallbackFirst(order, n, fallback) ==
    IF n < Len(order) THEN [mode |-> fallback, enc |-> order[n + 1]]
    ELSE [mode |-> "strict", enc |-> order[n - Len(order) + 1]]

\* the (n+1)-th decode attempt of parseRetailId's two loops over strictOrder
NextAttempt(order, n, fallback) ==
    IF n < Len(order) THEN [mode |-> "strict", enc |-> order[n + 1]]
    ELSE [mode |-> fallback, enc |-> order[n - Len(order) + 1]]

\* one iteration of either loop: the attempt, and the return on success
Attempt(after, last) ==
    LET a == NextAttempt(extracted.order, Len(attempts), options.validationFallback)
        r == tryParseWithEncoding(extracted.shortCode, a.enc, a.mode)
    IN /\ attempts' = Append(attempts, [mode |-> a.mode, enc |-> a.enc, ok |-> r.ok /\ r.val.some])
       /\ IF ~r.ok
          THEN outcome' = r /\ pc' = "done"
          ELSE IF r.val.some
          THEN /\ outcome' = Ok(ParsedRetailId(r.val.val, a.enc, extracted.domain, extracted.shortCode))
               /\ pc' = "done"
          ELSE /\ outcome' = outcome
               /\ pc' = IF Len(attempts) + 1 < last THEN pc ELSE after
       /\ UNCHANGED <<objectVars, httpVars, calls, src, shortUrl, entry, input, options, extracted, reencoded>>

\* lines 701-706
AttemptStrict ==
    /\ pc = "strict"
    /\ Attempt("strictFailed", 2)

\* strictPrefixesOnly not honoured: the fallback pass runs all the same
StrictOnlyThrow_Ignored ==
    /\ pc = "strictFailed" /\ options.strictPrefixesOnly
    /\ pc' = "fallback"
    /\ UNCHANGED <<objectVars, httpVars, calls, src, shortUrl, entry, input, options, extracted, attempts, outcome, reencoded>>

\* lines 708-710
StrictOnlyThrow ==
    /\ pc = "strictFailed" /\ options.strictPrefixesOnly
    /\ outcome' = Err("Unrecognized RetailID (strict prefixes only)")
    /\ pc' = "done"
    /\ UNCHANGED <<objectVars, httpVars, calls, src, shortUrl, entry, input, options, extracted, attempts, reencoded>>

EnterFallback ==
    /\ pc = "strictFailed" /\ ~options.strictPrefixesOnly
    /\ pc' = "fallback"
    /\ UNCHANGED <<objectVars, httpVars, calls, src, shortUrl, entry, input, options, extracted, attempts, outcome, reencoded>>

\* lines 713-718
AttemptFallback ==
    /\ pc = "fallback"
    /\ Attempt("exhausted", 4)

\* line 720
ThrowUnrecognized ==
    /\ pc = "exhausted"
    /\ outcome' = Err("Unrecognized RetailID")
    /\ pc' = "done"
    /\ UNCHANGED <<objectVars, httpVars, calls, src, shortUrl, entry, input, options, extracted, attempts, reencoded>>

\* parseRetailId(input, options') once more on the same input, after the first
\* call has returned or thrown; the first call is kept in the log
ParseAgain ==
    /\ pc = "done" /\ entry = EntryParse /\ calls = <<>>
    /\ input \in ReparsedInputs
    /\ calls' = <<Call("parseRetailId", [input |-> input, options |-> options], outcome)>>
    /\ \E po \in ParseOptionsSet : options' = po
    /\ extracted' = NoVal
    /\ attempts' = <<>>
    /\ outcome' = NoVal
    /\ pc' = "called"
    /\ UNCHANGED <<objectVars, httpVars, src, shortUrl, entry, input, reencoded>>

\* pair.encode(options) on a constructed RetailIdPair
PairEncode ==
    /\ pc = "done" /\ entry.fn = "RetailIdPair" /\ outcome.ok
    /\ \E eo \in PairEncodeOptionsSet :
          reencoded' = [opts |-> eo,
                        url |-> getShortUrl(outcome.val.batchId, Nat64(outcome.val.index), eo)]
    /\ pc' = "reencoded"
    /\ UNCHANGED <<objectVars, httpVars, calls, src, shortUrl, entry, input, options, extracted, attempts, outcome>>

\* ---- an ObjectId and its caller ----
\* new ObjectId(hex)
NewFromHex ==
    /\ pc = "idle" /\ calls = <<>>
    /\ \E h \in ObjectIdHexInputs :
          LET r == ObjectIdFromHex(h)
          IN /\ made' = [kind |-> "string", input |-> h, ret |-> r,
                         hex |-> IF r.ok THEN toHexString(r.val) ELSE <<>>]
             /\ heap' = IF r.ok THEN <<r.val.bytes>> ELSE <<>>
             /\ obj' = IF r.ok THEN [bytes |-> 1] ELSE NoVal
    /\ pc' = "object"
    /\ UNCHANGED <<httpVars, calls, src, shortUrl, entry, input, options, extracted, attempts, outcome,
                   reencoded, ids, lastRet>>

\* new ObjectId(array): the caller's array is heap[1], the object's bytes are
\* input.slice(), a new array
NewFromBytes ==
    /\ pc = "idle" /\ calls = <<>>
    /\ \E b \in ObjectIdByteInputs :
          LET r == ObjectIdFromBytes(b)
          IN /\ made' = [kind |-> "bytes", input |-> b, ret |-> r,
                         hex |-> IF r.ok THEN toHexString(r.val) ELSE <<>>]
             /\ heap' = IF r.ok THEN <<b, r.val.bytes>> ELSE <<b>>
             /\ obj' = IF r.ok THEN [bytes |-> 2] ELSE NoVal
    /\ pc' = "object"
    /\ UNCHANGED <<httpVars, calls, src, shortUrl, entry, input, options, extracted, attempts, outcome,
                   reencoded, ids, lastRet>>

\* the id accessor returning this.bytes itself
GetId_Shared ==
    /\ pc = "object" /\ obj # NoVal /\ Len(ids) + 2 < MaxArrays
    /\ ids' = Append(ids, obj.bytes)
    /\ lastRet' = [op |-> "id", ret |-> heap[obj.bytes]]
    /\ UNCHANGED <<codecVars, resolverVars, httpVars, heap, obj, made>>

\* oid.id: this.bytes.slice(), a new array
GetId ==
    /\ pc = "object" /\ obj # NoVal /\ Len(heap) < MaxArrays
    /\ heap' = Append(heap, heap[obj.bytes])
    /\ ids' = Append(ids, Len(heap) + 1)
    /\ lastRet' = [op |-> "id", ret |-> heap[obj.bytes]]
    /\ UNCHANGED <<codecVars, resolverVars, httpVars, obj, made>>

\* the arrays the caller holds: the one it passed in and those id returned
CallerArrays == (IF made.kind = "bytes" THEN {1} ELSE {}) \cup {ids[k] : k \in 1..Len(ids)}

\* the caller writes to the first or the last element of an array it holds
WriteArray ==
    /\ pc = "object" /\ obj # NoVal
    /\ \E a \in CallerArrays, v \in WrittenValues :
        \E i \in {1, Len(heap[a])} :
          /\ heap[a][i] # v
          /\ heap' = [heap EXCEPT ![a][i] = v]
    /\ UNCHANGED <<codecVars, resolverVars, httpVars, obj, made, ids, lastRet>>

\* oid.toHexString() and oid.toString()
CallToHexString ==
    /\ pc = "object" /\ obj # NoVal
    /\ \E op \in {"toHexString", "toString"} :
          lastRet' = [op |-> op, ret |-> toHexString([bytes |-> heap[obj.bytes]])]
    /\ UNCHANGED <<codecVars, resolverVars, httpVars, heap, obj, made, ids>>

\* oid.equals(other): other is an array in memory (the bytes of an ObjectId, or
\* a Uint8Array of the caller), or one of 11 or 13 bytes
CallEquals ==
    /\ pc = "object" /\ obj # NoVal
    /\ \E other \in {heap[a] : a \in 1..Len(heap)}
                       \cup {Take(heap[obj.bytes], 11), heap[obj.bytes] \o <<0>>} :
          lastRet' = [op |-> "equals", arg |-> other,
                      ret |-> equals([bytes |-> heap[obj.bytes]], other)]
    /\ UNCHANGED <<codecVars, resolverVars, httpVars, heap, obj, made, ids>>

\* ---- MetrcHttp.request and its fetches ----
\* what a rejected fetch promise carries: a network error or the abort reason
FETCH_REJECTED == [name |-> "Error", message |-> "fetch rejected"]

EntryReceive == [fn |-> "receiveByQrUrl"]

\* http.ts 88-127: the query is checked, the URL and headers are built, the
\* timeout timer is started when timeoutMs is set, and fetchImpl is called
StartRequest(args, timeoutMs) ==
    /\ requests' = Append(requests, args)
    /\ IF args.query = "invalid"
       THEN /\ result' = Err([name |-> "Error", message |-> "Invalid query param"])
            /\ phase' = "exit"
            /\ UNCHANGED <<fetches, timer>>
       ELSE /\ timer' = [started |-> timeoutMs.some /\ timeoutMs.val # 0, fired |-> FALSE,
                         cleared |-> FALSE]
            /\ fetches' = Append(fetches, FetchCall(args, FALSE))
            /\ phase' = "fetch1"
            /\ UNCHANGED result
    /\ UNCHANGED <<responses, waits>>

\* finally { if (t) clearTimeout(t) } (http.ts 141-143) and the call's completion
Finish(completion) ==
    /\ result' = completion
    /\ timer' = [timer EXCEPT !.cleared = timer.started]
    /\ phase' = "exit"

\* a caller of http.request
Request ==
    /\ pc = "idle" /\ calls = <<>> /\ phase = "idle"
    /\ \E args \in RequestArgsSet, timeoutMs \in TimeoutOptions : StartRequest(args, timeoutMs)
    /\ pc' = "http"
    /\ UNCHANGED <<objectVars, calls, src, shortUrl, entry, input, options, extracted, attempts,
                   outcome, reencoded>>

\* the timeout callback: ac.abort(new Error("timeout")) (http.ts 124)
TimerFires ==
    /\ phase \notin {"idle"}
    /\ timer.started /\ ~timer.fired /\ ~timer.cleared
    /\ timer' = [timer EXCEPT !.fired = TRUE]
    /\ UNCHANGED <<codecVars, resolverVars, objectVars, phase, requests, fetches, responses, waits,
                   result>>

\* the first fetch resolves (http.ts 127-140)
Fetch1Resolves ==
    /\ phase = "fetch1"
    /\ \E res \in Responses :
          /\ responses' = Append(responses, res)
          /\ IF ShouldRetry(res)
             THEN /\ waits' = Append(waits, [ms |-> RetryAfterSeconds(res).millis, elapsed |-> FALSE])
                  /\ phase' = "waiting"
             ELSE /\ phase' = "parse1"
                  /\ UNCHANGED waits
    /\ UNCHANGED <<codecVars, resolverVars, objectVars, requests, fetches, timer, result>>

\* the first fetch rejects: a network error, or the abort of the timeout
Fetch1Rejects ==
    /\ phase = "fetch1"
    /\ Finish(Err(FETCH_REJECTED))
    /\ UNCHANGED <<codecVars, resolverVars, objectVars, requests, fetches, responses, waits>>

\* the Retry-After timer fires and fetchImpl is called again (http.ts 134-135)
WaitElapses ==
    /\ phase = "waiting"
    /\ waits' = [waits EXCEPT ![Len(waits)].elapsed = TRUE]
    /\ fetches' = Append(fetches, FetchCall(requests[Len(requests)], timer.fired))
    /\ phase' = "fetch2"
    /\ UNCHANGED <<codecVars, resolverVars, objectVars, requests, responses, timer, result>>

\* a second fetch that retries as the first one does
Fetch2Resolves_RetryAgain ==
    /\ phase = "fetch2"
    /\ \E res \in Responses :
          /\ responses' = Append(responses, res)
          /\ IF ShouldRetry(res)
             THEN /\ waits' = Append(waits, [ms |-> RetryAfterSeconds(res).millis, elapsed |-> FALSE])
                  /\ phase' = "waiting"
             ELSE /\ phase' = "parse2"
                  /\ UNCHANGED waits
    /\ UNCHANGED <<codecVars, resolverVars, objectVars, requests, fetches, timer, result>>

\* the second fetch resolves: its response goes to parse whatever it is (http.ts 136)
Fetch2Resolves ==
    /\ phase = "fetch2"
    /\ \E res \in Responses : responses' = Append(responses, res)
    /\ phase' = "parse2"
    /\ UNCHANGED <<codecVars, resolverVars, objectVars, requests, fetches, timer, waits, result>>

Fetch2Rejects ==
    /\ phase = "fetch2"
    /\ Finish(Err(FETCH_REJECTED))
    /\ UNCHANGED <<codecVars, resolverVars, objectVars, requests, fetches, responses, waits>>

\* parse of the last response: its data is returned or a MetrcApiError is
\* thrown (http.ts 136, 140, 146-156)
Parse ==
    /\ phase \in {"parse1", "parse2"}
    /\ Finish(parse(responses[Len(responses)]))
    /\ UNCHANGED <<codecVars, resolverVars, objectVars, requests, fetches, responses, waits>>

\* ---- receiveByQrUrl (retailId.ts 101-104) ----
\* line 102: parseRetailId(qrUrl), under the default options
ReceiveByQrUrl ==
    /\ pc = "idle" /\ calls = <<>> /\ phase = "idle"
    /\ \E s \in QrUrls : input' = s
    /\ options' = DefaultParseOptions
    /\ entry' = EntryReceive
    /\ pc' = "called"
    /\ UNCHANGED <<objectVars, httpVars, calls, src, shortUrl, extracted, attempts, outcome, reencoded>>

\* line 102 when parseRetailId throws: the error leaves receiveByQrUrl
ReceiveThrows ==
    /\ pc = "done" /\ entry = EntryReceive /\ ~outcome.ok /\ phase = "idle"
    /\ result' = outcome
    /\ phase' = "exit"
    /\ UNCHANGED <<codecVars, resolverVars, objectVars, requests, fetches, responses, timer, waits>>

\* line 103: receiveByShortCode(parsed.shortCode, licenseNumber), which calls http.request
ReceiveByShortCode ==
    /\ pc = "done" /\ entry = EntryReceive /\ outcome.ok /\ phase = "idle"
    /\ \E timeoutMs \in TimeoutOptions : StartRequest(ReceiveByQrUrlArgs(outcome.val, LICENSE), timeoutMs)
    /\ UNCHANGED <<codecVars, resolverVars, objectVars>>

NextHttp ==
    \/ Request \/ TimerFires \/ Fetch1Resolves \/ Fetch1Rejects \/ WaitElapses
    \/ Fetch2Resolves \/ Fetch2Rejects \/ Parse

NextReceive == ReceiveByQrUrl \/ ReceiveThrows \/ ReceiveByShortCode

NextObjectId ==
    \/ NewFromHex \/ NewFromBytes \/ GetId \/ WriteArray \/ CallToHexString \/ CallEquals

NextCodec ==
    \/ CallEncodeBase36 \/ CallDecodeBase36 \/ DecodeEncoded \/ EncodeDecoded \/ DecodeOtherCase
    \/ CallVarIntEncode \/ VarIntDecodeEncoded \/ CallVarIntDecode \/ CallNewVarInt
    \/ CallGetBatchIdAndIndex \/ CallWithTrailing

NextResolver ==
    \/ GetShortUrl \/ ParseShortUrl \/ PairFromShortUrl \/ ParseScanned \/ PairFromScanned
    \/ Extract \/ AttemptStrict \/ StrictOnlyThrow \/ EnterFallback \/ AttemptFallback
    \/ ThrowUnrecognized \/ PairEncode \/ ParseAgain

Next == NextCodec \/ NextResolver \/ NextObjectId \/ NextHttp \/ NextReceive

Spec == Init /\ [][Next]_vars
SpecCodec == Init /\ [][NextCodec]_vars
SpecResolver == Init /\ [][NextResolver]_vars
SpecObjectId == Init /\ [][NextObjectId]_vars
SpecHttp == Init /\ [][NextHttp]_vars

(***************************************************************************)
(* Properties                                                              *)
(***************************************************************************)
IsCall(k, fn) == Len(calls) >= k /\ calls[k].fn = fn

\* the identifier's hex starts with 1a4 or abc, read off the bytes
KnownPrefixBytes(b) ==
    \/ b[1] = 26 /\ b[2] \div 16 = 4
    \/ b[1] = 171 /\ b[2] \div 16 = 12

\* big-endian comparison of two byte sequences of the same length
RECURSIVE LexLeq(_, _)
LexLeq(a, b) ==
    IF a = <<>> THEN TRUE
    ELSE IF Head(a) # Head(b) THEN Head(a) < Head(b)
    ELSE LexLeq(Tail(a), Tail(b))

LexLt(a, b) == a # b /\ LexLeq(a, b)

\* 2012-01-01T00:00:00Z = 0x4effa200 and 2052-01-01T00:00:00Z = 0x9a3cdd00
TS_2012 == <<78, 255, 162, 0>>
TS_2052 == <<154, 60, 221, 0>>

\* C4: for every non-empty byte sequence b, encodeBase36(b) succeeds and
\* decodeBase36(encodeBase36(b)) equals b: same bytes, same length, same number
\* of leading zero bytes.
C4_Base36RoundTrip ==
    /\ (IsCall(1, "encodeBase36") /\ calls[1].arg # <<>>) => calls[1].ret.ok
    /\ (IsCall(1, "encodeBase36") /\ IsCall(2, "decodeBase36")) =>
          /\ calls[2].ret.ok
          /\ calls[2].ret.val = calls[1].arg
          /\ Len(calls[2].ret.val) = Len(calls[1].arg)
          /\ CountLeading(calls[2].ret.val, 0) = CountLeading(calls[1].arg, 0)

\* C4 witness: the round trip of a sequence with two leading zero bytes
C4_Witness ==
    /\ IsCall(1, "encodeBase36") /\ IsCall(2, "decodeBase36")
    /\ calls[1].arg = <<0, 0, 255, 36>>
    /\ calls[2].ret = Ok(<<0, 0, 255, 36>>)

\* C5: decodeBase36 accepts every non-empty string s over [0-9A-Za-z], and
\* encodeBase36(decodeBase36(s)) equals s in uppercase; an uppercase s comes
\* back unchanged, so with C4 the two functions are mutually inverse between
\* non-empty byte sequences and non-empty uppercase base-36 strings.
C5_Base36Canonical ==
    /\ (IsCall(1, "decodeBase36") /\ testBase36(calls[1].arg)) => calls[1].ret.ok
    /\ (IsCall(1, "decodeBase36") /\ IsCall(2, "encodeBase36")) =>
          /\ calls[2].ret.ok
          /\ calls[2].ret.val = ToUpperCase(calls[1].arg)
          /\ (\A i \in 1..Len(calls[1].arg) : ~IsLowerChar(calls[1].arg[i]))
                => calls[2].ret.val = calls[1].arg

\* C5 witness: a mixed-case string with a leading '0' comes back in uppercase
C5_Witness ==
    /\ IsCall(1, "decodeBase36") /\ IsCall(2, "encodeBase36")
    /\ calls[1].arg = <<"0", "a", "Z", "z">>
    /\ calls[2].ret = Ok(<<"0", "A", "Z", "Z">>)

\* C6: for every integer n with 0 <= n <= 2^53-1, VarInt.encode(n) succeeds and
\* VarInt.decode(VarInt.encode(n), 0) returns value n and a consumed length
\* equal to the length of the encoding.
C6_VarIntRoundTrip ==
    /\ (IsCall(1, "VarInt.encode") /\ calls[1].arg.kind = "nat" /\ IsSafeInteger(calls[1].arg.mag)) =>
          calls[1].ret.ok
    /\ (IsCall(1, "VarInt.encode") /\ IsCall(2, "VarInt.decode")) =>
          /\ calls[2].ret.ok
          /\ calls[2].ret.val.value = calls[1].arg.mag
          /\ calls[2].ret.val.length = Len(calls[1].ret.val)

\* C6 witness: the round trip of 2^53-1, eight bytes long
C6_Witness ==
    /\ IsCall(1, "VarInt.encode") /\ IsCall(2, "VarInt.decode")
    /\ calls[1].arg.mag = MAX_SAFE_INTEGER
    /\ calls[2].ret.ok
    /\ calls[2].ret.val.length = 8

\* a getBatchIdAndIndex call in mode mongo on an identifier without a known
\* prefix, followed by a VarInt that decodes
IsMongoCall ==
    /\ IsCall(1, "getBatchIdAndIndex")
    /\ calls[1].arg.mode = "mongo"
    /\ Len(calls[1].arg.buffer) >= 13
    /\ ~KnownPrefixBytes(calls[1].arg.buffer)
    /\ VarIntDecode(Drop(calls[1].arg.buffer, 12), 0).ok

\* C9 as stated: in mode mongo an identifier without a known prefix is accepted
\* if and only if 2012-01-01T00:00:00Z <= t < 2052-01-01T00:00:00Z.
C9_HalfOpenRange ==
    IsMongoCall =>
        (calls[1].ret.ok <=>
            /\ LexLeq(TS_2012, Take(calls[1].arg.buffer, 4))
            /\ LexLt(Take(calls[1].arg.buffer, 4), TS_2052))

\* C9 amended: in mode mongo an identifier without a known prefix is accepted
\* if and only if 2012-01-01T00:00:00Z <= t <= 2052-01-01T00:00:00Z, both ends
\* included: 2052-01-01T00:00:00Z itself is accepted, one second later is not.
C9_ClosedRange ==
    IsMongoCall =>
        (calls[1].ret.ok <=>
            /\ LexLeq(TS_2012, Take(calls[1].arg.buffer, 4))
            /\ LexLeq(Take(calls[1].arg.buffer, 4), TS_2052))

\* C9 witness: an identifier stamped exactly 2052-01-01T00:00:00Z is accepted
C9_Witness ==
    /\ IsMongoCall
    /\ Take(calls[1].arg.buffer, 4) = TS_2052
    /\ calls[1].ret.ok

\* parseRetailId has returned or thrown
Returned == pc \in {"done", "reencoded"}

\* getShortUrl was called with the default domain (none given, or an empty one)
DefaultDomainGiven == src.opts.domain = None \/ src.opts.domain = Some(<<>>)

EXTRACTION_ERRORS == {"Empty RetailID input", "No path segment found in URL"}
UNRECOGNIZED == "Unrecognized RetailID"
UNRECOGNIZED_STRICT == "Unrecognized RetailID (strict prefixes only)"

\* the README's URL for (1a4060300020081000006609, 1)
README_URL ==
    <<"H", "T", "T", "P", "S", ":", "/", "/", "1", "A", "4", ".", "C", "O", "M", "/",
      "5", "L", "N", "8", "C", "B", "N", "1", "U", "B", "3", "3", "D", "O", "N", "9",
      "C", "H", "K", "X">>

\* C1: for every identifier with a known prefix, every index up to 2^53-1 and
\* either output form with the default domain, getShortUrl succeeds and
\* parseRetailId(getShortUrl(id, i, opts)) with default options returns batchId =
\* id, index = i and the encoding that was used to encode.
C1_UrlRoundTrip ==
    /\ (pc # "idle" /\ src # NoVal) => shortUrl.ok
    /\ (/\ Returned /\ src # NoVal /\ entry = EntryParse /\ options = DefaultParseOptions
        /\ KnownPrefixBytes(src.id) /\ DefaultDomainGiven) =>
          /\ outcome.ok
          /\ outcome.val.batchId.bytes = src.id
          /\ outcome.val.index = src.index.mag
          /\ outcome.val.encoding = (IF src.opts.base64 THEN "base64" ELSE "base36")

\* C1 witness: the base-64 form of (README id, 2^53-1) resolved back
C1_Witness ==
    /\ pc = "done" /\ src # NoVal /\ entry = EntryParse /\ options = DefaultParseOptions
    /\ src.id = README_ID /\ src.index.mag = MAX_SAFE_INTEGER
    /\ src.opts = [domain |-> None, base64 |-> TRUE]
    /\ outcome.ok /\ outcome.val.index = MAX_SAFE_INTEGER /\ outcome.val.encoding = "base64"

\* C2: getShortUrl(new ObjectId("1a4060300020081000006609"), 1) with default
\* options returns exactly "HTTPS://1A4.COM/5LN8CBN1UB33DON9CHKX"; its buffer is
\* the 12 identifier bytes followed by the single byte 0x01.
C2_LiteralVector ==
    (pc = "encoded" /\ src = [id |-> README_ID, index |-> Nat64(ToNum(1)), opts |-> NoEncodeOptions]) =>
        /\ shortUrl = Ok(README_URL)
        /\ README_ID = hexToBytes(<<"1", "a", "4", "0", "6", "0", "3", "0", "0", "0", "2", "0",
                                    "0", "8", "1", "0", "0", "0", "0", "0", "6", "6", "0", "9">>)
        /\ getBuffer(ObjectIdFromBytes(src.id).val, src.index) = Ok(README_ID \o <<1>>)

\* C2 witness: that very call was made
C2_Witness ==
    /\ pc = "encoded"
    /\ src = [id |-> README_ID, index |-> Nat64(ToNum(1)), opts |-> NoEncodeOptions]
    /\ shortUrl.ok

\* new RetailIdPair(u).encode() was called on a URL u that getShortUrl produced
ReencodedCanonical ==
    /\ pc = "reencoded" /\ src # NoVal
    /\ entry = EntryPair(None)
    /\ reencoded.opts = NoEncodeOptions

\* C3 as stated: for every canonical short URL u, in either form,
\* new RetailIdPair(u).encode() with no options returns u.
C3_ReencodeAnyForm == ReencodedCanonical => reencoded.url = Ok(input)

\* C3 amended: for every canonical short URL u of the base-36 form with the
\* default domain (HTTPS://1A4.COM/{BASE36}), new RetailIdPair(u).encode() with
\* no options returns u.
C3_ReencodeBase36Default ==
    (ReencodedCanonical /\ ~src.opts.base64 /\ DefaultDomainGiven) => reencoded.url = Ok(input)

\* C3 witness: an identifier without a known prefix and with leading zero bytes,
\* index 2^53-1, resolved by the fallback pass and encoded again
C3_Witness ==
    /\ ReencodedCanonical /\ ~src.opts.base64 /\ DefaultDomainGiven
    /\ Take(src.id, 4) = <<0, 0, 0, 0>> /\ src.index.mag = MAX_SAFE_INTEGER
    /\ reencoded.url = Ok(input)

\* the four decode attempts in the order the claim fixes, for try-order <<e1, e2>>
FixedSequence(order, fallback) ==
    <<[mode |-> "strict", enc |-> order[1]], [mode |-> "strict", enc |-> order[2]],
      [mode |-> fallback, enc |-> order[1]], [mode |-> fallback, enc |-> order[2]]>>

\* C7: the decode attempts are made in the fixed sequence (strict, e1),
\* (strict, e2), (fallback, e1), (fallback, e2); every attempt before the last
\* one made has failed, a successful attempt ends the call, and the result is
\* that of the successful attempt.
C7_AttemptOrder ==
    /\ extracted = NoVal => attempts = <<>>
    /\ extracted # NoVal =>
          LET fixed == FixedSequence(extracted.order, options.validationFallback)
              n == Len(attempts)
          IN /\ n <= 4
             /\ {extracted.order[1], extracted.order[2]} = {"base36", "base64"}
             /\ \A k \in 1..n :
                   /\ attempts[k].mode = fixed[k].mode
                   /\ attempts[k].enc = fixed[k].enc
                   /\ attempts[k].ok = TryBody(extracted.shortCode, fixed[k].enc, fixed[k].mode).ok
                   /\ k < n => ~attempts[k].ok
             /\ (n > 0 /\ attempts[n].ok) =>
                   /\ Returned /\ outcome.ok
                   /\ outcome.val.encoding = attempts[n].enc
                   /\ outcome.val.batchId =
                         TryBody(extracted.shortCode, attempts[n].enc, attempts[n].mode).val.batchId
                   /\ outcome.val.index =
                         TryBody(extracted.shortCode, attempts[n].enc, attempts[n].mode).val.index
             /\ (Returned /\ outcome.ok) => (n > 0 /\ attempts[n].ok)

\* C7 witness: the hinted encoding e1 fails strict, the other encoding e2
\* succeeds strict and is returned, although (fallback, e1) would have succeeded
C7_Witness ==
    /\ pc = "done" /\ outcome.ok /\ Len(attempts) = 2
    /\ extracted.schemeHint = Some(extracted.order[1])
    /\ outcome.val.encoding = extracted.order[2]
    /\ TryBody(extracted.shortCode, extracted.order[1], options.validationFallback).ok

OtherFallback(f) == IF f = "mongo" THEN "any" ELSE "mongo"

\* what strictPrefixesOnly guarantees once extraction is behind: only strict
\* attempts, and the same outcome whatever validationFallback is
StrictOnlyNoFallback ==
    (options # NoVal /\ options.strictPrefixesOnly) =>
        /\ Len(attempts) <= 2
        /\ \A k \in 1..Len(attempts) : attempts[k].mode = "strict"
        /\ pc \notin {"fallback", "exhausted"}
        /\ Returned =>
              outcome = parseRetailId(input, [options EXCEPT !.validationFallback = OtherFallback(@)])

\* C8 as stated: with strictPrefixesOnly = true the call either returns a result
\* with a known prefix or fails with the unrecognized-id error.
C8_StrictOnlyTwoOutcomes ==
    (Returned /\ options.strictPrefixesOnly) =>
        \/ outcome.ok /\ KnownPrefixBytes(outcome.val.batchId.bytes)
        \/ ~outcome.ok /\ outcome.err \in {UNRECOGNIZED, UNRECOGNIZED_STRICT}

\* C8 amended: with strictPrefixesOnly = true the call either fails in extraction
\* (empty input, malformed URL) before any attempt, or returns a result with a
\* known prefix, or fails with the unrecognized-id error; Pass 2 is never run and
\* validationFallback has no effect.
C8_StrictOnly ==
    /\ StrictOnlyNoFallback
    /\ (Returned /\ options.strictPrefixesOnly) =>
          \/ outcome.ok /\ KnownPrefixBytes(outcome.val.batchId.bytes)
          \/ ~outcome.ok /\ outcome.err = UNRECOGNIZED_STRICT /\ Len(attempts) = 2
          \/ ~outcome.ok /\ outcome.err \in EXTRACTION_ERRORS /\ attempts = <<>>

\* C8 witness: strictPrefixesOnly rejects an input that the fallback pass would
\* have accepted
C8_Witness ==
    /\ pc = "done" /\ options.strictPrefixesOnly
    /\ ~outcome.ok /\ outcome.err = UNRECOGNIZED_STRICT
    /\ parseRetailId(input, [options EXCEPT !.strictPrefixesOnly = FALSE]).ok

\* C10: parseRetailId returns a ParsedRetailId or fails with exactly one of: the
\* empty-input or malformed-URL error, raised by extraction before any attempt,
\* or the unrecognized-id error, raised after all attempts allowed have failed;
\* no error of a decode attempt reaches the caller.  "!!!not-valid!!!" with
\* default options fails with the unrecognized-id error.
C10_ErrorContainment ==
    /\ Returned =>
          \/ outcome.ok
          \/ ~outcome.ok /\ outcome.err \in EXTRACTION_ERRORS
                /\ attempts = <<>> /\ extracted = NoVal
          \/ ~outcome.ok /\ outcome.err = UNRECOGNIZED_STRICT
                /\ options.strictPrefixesOnly
                /\ Len(attempts) = 2 /\ \A k \in 1..2 : ~attempts[k].ok
          \/ ~outcome.ok /\ outcome.err = UNRECOGNIZED
                /\ ~options.strictPrefixesOnly
                /\ Len(attempts) = 4 /\ \A k \in 1..4 : ~attempts[k].ok
    /\ ~Returned => outcome = NoVal
    /\ (Returned /\ input = GarbageInput /\ options = DefaultParseOptions) =>
          outcome = Err(UNRECOGNIZED)

\* C10 witness: every attempt on a code whose VarInt runs beyond 2^53-1 has
\* failed, one of them with the RangeError, and the caller sees the
\* unrecognized-id error
C10_Witness ==
    /\ pc = "done" /\ outcome = Err(UNRECOGNIZED)
    /\ \E k \in 1..Len(attempts) :
          LET r == TryBody(extracted.shortCode, attempts[k].enc, attempts[k].mode)
          IN ~r.ok /\ r.err = "RangeError: value exceeds Number.MAX_SAFE_INTEGER"

\* decoding shortCode with enc gives no buffer of 13 bytes or more
NoFullBuffer(shortCode, enc) ==
    LET d == DecodeWith(shortCode, enc) IN ~d.ok \/ Len(d.val) < 13

\* C11: for every buffer of length 0..12 and every validation mode,
\* getBatchIdAndIndex fails; and parseRetailId returns no result for a shortCode
\* that decodes to fewer than 13 bytes (or not at all) under both encodings.
C11_TruncatedBuffer ==
    /\ (IsCall(1, "getBatchIdAndIndex") /\ Len(calls[1].arg.buffer) < 13) => ~calls[1].ret.ok
    /\ (Returned /\ extracted # NoVal
          /\ NoFullBuffer(extracted.shortCode, "base36")
          /\ NoFullBuffer(extracted.shortCode, "base64")) => ~outcome.ok

\* C11 witness: the 12 identifier bytes alone, with a known prefix, are
\* rejected in mode "any"
C11_Witness ==
    /\ IsCall(1, "getBatchIdAndIndex")
    /\ calls[1].arg = [buffer |-> README_ID, mode |-> "any"]
    /\ ~calls[1].ret.ok

\* C11 witness in the resolver: a short code that decodes under both encodings,
\* to fewer than 13 bytes each, is not recognized even with fallback "any"
C11_WitnessResolver ==
    /\ pc = "done" /\ extracted # NoVal /\ options = DefaultParseOptions
    /\ DecodeWith(extracted.shortCode, "base36").ok
    /\ DecodeWith(extracted.shortCode, "base64").ok
    /\ Len(DecodeWith(extracted.shortCode, "base36").val) = 8
    /\ Len(DecodeWith(extracted.shortCode, "base64").val) < 13
    /\ outcome = Err(UNRECOGNIZED)

UNDERFLOW == "VarInt.decode: buffer underflow"
RANGE_ERRORS ==
    {"RangeError: value exceeds Number.MAX_SAFE_INTEGER", "RangeError: multiplier overflow"}

\* the k-th call in the log is VarInt.decode
IsDecodeCall(k) == IsCall(k, "VarInt.decode")

\* the bytes of the k-th call's source from its offset on
FromOffset(k) == Drop(calls[k].arg.source, calls[k].arg.offset)

\* every byte from the offset to the end of the buffer has the continuation bit
NonTerminating(k) == \A i \in 1..Len(FromOffset(k)) : FromOffset(k)[i] >= 128

\* C12 as stated: a buffer whose bytes from the offset on all have the
\* continuation bit makes VarInt.decode fail with the underflow error, whatever
\* its length and low bits.
C12_AlwaysUnderflow ==
    \A k \in 1..Len(calls) :
        (IsDecodeCall(k) /\ NonTerminating(k)) => calls[k].ret = Err(UNDERFLOW)

\* C12 amended: such a buffer never makes VarInt.decode return a value; the
\* call fails with the underflow error when at most 7 bytes follow the offset,
\* and with the overflow RangeError when 8 or more do.
C12_NonTerminating ==
    \A k \in 1..Len(calls) :
        (IsDecodeCall(k) /\ NonTerminating(k)) =>
            /\ ~calls[k].ret.ok
            /\ Len(FromOffset(k)) <= 7 => calls[k].ret.err = UNDERFLOW
            /\ Len(FromOffset(k)) >= 8 => calls[k].ret.err \in RANGE_ERRORS

\* C12 witness: seven bytes 0xff after offset 1, and then the end of the buffer
C12_Witness ==
    /\ IsDecodeCall(1)
    /\ calls[1].arg = [source |-> <<1>> \o Repeat(255, 7), offset |-> 1]
    /\ calls[1].ret = Err(UNDERFLOW)

\* the low 7 bits of the bytes of the k-th call from its offset up to the first
\* byte without the continuation bit (or to the end): the base-128 digits,
\* least significant first, of the sum of (byte & 0x7f) * 128^i
RECURSIVE UpToTerminator(_)
UpToTerminator(bytes) ==
    IF bytes = <<>> THEN <<>>
    ELSE IF Head(bytes) < 128 THEN <<Head(bytes)>>
    ELSE <<Head(bytes)>> \o UpToTerminator(Tail(bytes))

Terminated(bytes) == \E i \in 1..Len(bytes) : bytes[i] < 128

\* the sum of the first n digits exceeds 2^53 - 1 = 15 * 128^7 + (128^7 - 1):
\* digit 7 is 16 or more, or a digit above it is not 0
SumExceeds(bytes, n) ==
    \E i \in 1..n : bytes[i] % 128 # 0 /\ (i > 8 \/ (i = 8 /\ bytes[i] % 128 >= 16))

\* the sum of the digits by Horner's rule from the most significant digit down
RECURSIVE SumOf(_)
SumOf(bytes) ==
    IF bytes = <<>> THEN Num0
    ELSE NumAdd(NumMulSmall(SumOf(Tail(bytes)), 128), ToNum(Head(bytes) % 128))

\* the number of bytes after which the sum first exceeds 2^53 - 1
FirstExceeding(bytes) == CHOOSE n \in 1..Len(bytes) : SumExceeds(bytes, n) /\ ~SumExceeds(bytes, n - 1)

\* C13: VarInt.decode returns only values in 0..2^53-1 that equal the exact
\* sum of (byte & 0x7f) * 128^i over the bytes it consumed, which end at the
\* first byte without the continuation bit; every terminated sequence whose
\* exact sum exceeds 2^53-1 fails with a RangeError, and the same RangeError is
\* raised when the buffer is cut right after the byte at which the sum first
\* exceeds the bound: the overflow is detected by that step, not at the end.
C13_OverflowSafety ==
    \A k \in 1..Len(calls) :
        IsDecodeCall(k) =>
            LET bytes == UpToTerminator(FromOffset(k))
                ret == calls[k].ret
            IN /\ ret.ok =>
                     /\ IsSafeInteger(ret.val.value)
                     /\ Terminated(FromOffset(k))
                     /\ ret.val.length = Len(bytes)
                     /\ ret.val.bytes = bytes
                     /\ ~SumExceeds(bytes, Len(bytes))
                     /\ ret.val.value = SumOf(bytes)
               /\ (Terminated(FromOffset(k)) /\ SumExceeds(bytes, Len(bytes))) =>
                     /\ ~ret.ok /\ ret.err \in RANGE_ERRORS
                     /\ VarIntDecode(Take(bytes, FirstExceeding(bytes)), 0) = ret

\* C13 witness: 80 80 80 80 80 80 80 90 00 sums to exactly 2^53 at its eighth
\* byte and is refused there
C13_Witness ==
    /\ IsDecodeCall(1)
    /\ calls[1].arg = [source |-> Repeat(128, 7) \o <<144>> \o <<0>>, offset |-> 0]
    /\ calls[1].ret = Err("RangeError: value exceeds Number.MAX_SAFE_INTEGER")

\* getShortUrl has returned a URL of the form asked for
EncodedAs(base64) == pc = "encoded" /\ src.opts.base64 = base64 /\ shortUrl.ok

\* the domain the caller supplied, or 1a4.com
DomainSupplied ==
    IF src.opts.domain = None \/ src.opts.domain = Some(<<>>)
    THEN <<"1", "a", "4", ".", "c", "o", "m">> ELSE src.opts.domain.val

\* what follows scheme, "//", domain and "/" in the URL returned
DataPartReturned == Drop(shortUrl.val, 8 + Len(DomainSupplied) + 1)

\* the RetailId buffer of the call: the identifier and the VarInt of the index
BufferEncoded == src.id \o VarIntEncode(src.index).val

\* C14: without options.base64, getShortUrl returns "HTTPS://" + domain + "/" +
\* encodeBase36(buffer), all of it in uppercase, the domain included; the domain
\* is 1a4.com when none is given, so the default output begins with
\* "HTTPS://1A4.COM/" and has no lowercase character.
C14_Base36Form ==
    EncodedAs(FALSE) =>
        /\ Take(shortUrl.val, 8) = <<"H", "T", "T", "P", "S", ":", "/", "/">>
        /\ SubSeq(shortUrl.val, 9, 8 + Len(DomainSupplied)) = ToUpperCase(DomainSupplied)
        /\ shortUrl.val[8 + Len(DomainSupplied) + 1] = "/"
        /\ DataPartReturned = encodeBase36(BufferEncoded).val
        /\ decodeBase36(DataPartReturned) = Ok(BufferEncoded)
        /\ \A i \in 1..Len(shortUrl.val) : ~IsLowerChar(shortUrl.val[i])
        /\ DefaultDomainGiven => StartsWith(shortUrl.val, UPPER_PREFIX)

\* C14 witness: a domain given in mixed case comes out in uppercase
C14_Witness ==
    /\ EncodedAs(FALSE) /\ src.opts.domain = Some(EXAMPLE_DOMAIN)
    /\ StartsWith(shortUrl.val, <<"H", "T", "T", "P", "S", ":", "/", "/", "R", "I", "D", ".",
                                  "E", "X", "A", "M", "P", "L", "E", "/">>)

\* the data part is the unpadded URL-safe base-64 of the buffer, case unaltered
UrlSafeData ==
    /\ \A i \in 1..Len(DataPartReturned) : DataPartReturned[i] \notin {"+", "/", "="}
    /\ DataPartReturned = RemoveChar(ReplaceChar(ReplaceChar(bytesToBase64(BufferEncoded), "+", "-"),
                                                 "/", "_"), "=")
    /\ base64ToBytes(decodeUrl64(DataPartReturned)) = Ok(BufferEncoded)

\* C15 as stated: with options.base64, getShortUrl returns "https://" + domain +
\* "/" + data with scheme and domain in lowercase for every domain supplied.
C15_DomainLowercased ==
    EncodedAs(TRUE) =>
        /\ Take(shortUrl.val, 8) = <<"h", "t", "t", "p", "s", ":", "/", "/">>
        /\ SubSeq(shortUrl.val, 9, 8 + Len(DomainSupplied)) = ToLowerCase(DomainSupplied)
        /\ shortUrl.val[8 + Len(DomainSupplied) + 1] = "/"
        /\ UrlSafeData

\* C15 amended: with options.base64, getShortUrl returns "https://" + domain +
\* "/" + data, where the scheme is lowercase, the domain is exactly as supplied
\* (1a4.com when none is), and the data part is the unpadded URL-safe base-64 of
\* the buffer with its case unaltered.
C15_Base64Form ==
    EncodedAs(TRUE) =>
        /\ Take(shortUrl.val, 8) = <<"h", "t", "t", "p", "s", ":", "/", "/">>
        /\ SubSeq(shortUrl.val, 9, 8 + Len(DomainSupplied)) = DomainSupplied
        /\ shortUrl.val[8 + Len(DomainSupplied) + 1] = "/"
        /\ UrlSafeData

\* C15 witness: a domain given in mixed case, and a data part with '-' or '_'
\* in it and letters of both cases
C15_Witness ==
    /\ EncodedAs(TRUE) /\ src.opts.domain = Some(EXAMPLE_DOMAIN)
    /\ \E i \in 1..Len(DataPartReturned) : DataPartReturned[i] \in {"-", "_"}
    /\ \E i \in 1..Len(DataPartReturned) : IsLowerChar(DataPartReturned[i])
    /\ \E i \in 1..Len(DataPartReturned) : IsUpperChar(DataPartReturned[i])

\* the options the legacy flag stands for
LegacyOptions(strict) ==
    IF strict = Some(TRUE) THEN [validationFallback |-> "mongo", strictPrefixesOnly |-> FALSE]
    ELSE [validationFallback |-> "any", strictPrefixesOnly |-> FALSE]

\* C16: new RetailIdPair(input, true) has the outcome (the same fields or the
\* same failure) of parseRetailId(input, {validationFallback: "mongo",
\* strictPrefixesOnly: false}); new RetailIdPair(input, false) and new
\* RetailIdPair(input) have that of parseRetailId(input, {validationFallback:
\* "any", strictPrefixesOnly: false}); strictPrefixesOnly is never true through
\* the constructor.
C16_LegacyStrictMapping ==
    (entry # NoVal /\ entry.fn = "RetailIdPair") =>
        /\ ~options.strictPrefixesOnly
        /\ Returned => outcome = parseRetailId(input, LegacyOptions(entry.strict))

\* C16 witness: an identifier without a known prefix and with a timestamp
\* outside 2012..2052 is refused by new RetailIdPair(input, true), and accepted
\* when the flag is false or left out
C16_Witness ==
    /\ pc = "done" /\ entry = EntryPair(Some(TRUE))
    /\ outcome = Err(UNRECOGNIZED)
    /\ parseRetailId(input, LegacyOptions(None)).ok
    /\ parseRetailId(input, LegacyOptions(Some(FALSE))).ok

HEX_CHARS ==
    {"0", "1", "2", "3", "4", "5", "6", "7", "8", "9", "a", "b", "c", "d", "e", "f",
     "A", "B", "C", "D", "E", "F"}

\* C17: once an ObjectId is constructed, nothing its caller can do - writing to
\* the array passed to the constructor, writing to arrays the id accessor
\* returned, calling toHexString, toString or equals - changes what
\* toHexString() returns; every array the id accessor returns is a new one, shared
\* neither with the object's bytes nor with an array returned before.
C17_ObjectIdImmutable ==
    obj # NoVal =>
        /\ bytesToHex(heap[obj.bytes]) = made.hex
        /\ obj.bytes \notin CallerArrays
        /\ \A j, k \in 1..Len(ids) : j # k => ids[j] # ids[k]
        /\ \A k \in 1..Len(ids) : made.kind = "bytes" => ids[k] # 1
        /\ (lastRet # NoVal /\ lastRet.op \in {"toHexString", "toString"}) => lastRet.ret = made.hex
        /\ (lastRet # NoVal /\ lastRet.op = "id") => bytesToHex(lastRet.ret) = made.hex

\* C17 witness: the array passed in and two arrays returned by id have been
\* written to, and toHexString() returns what it returned at construction
C17_Witness ==
    /\ obj # NoVal /\ made.kind = "bytes" /\ Len(ids) = 2
    /\ heap[1] # made.input
    /\ heap[ids[1]] # made.input /\ heap[ids[2]] # made.input /\ heap[ids[1]] # heap[ids[2]]
    /\ lastRet # NoVal /\ lastRet.op = "toHexString" /\ lastRet.ret = made.hex

\* C18: new ObjectId(string) succeeds exactly when the string has 24 characters,
\* all in [0-9a-fA-F]; new ObjectId(array) exactly when the array has 12 bytes;
\* a failed construction leaves no object.  The object holds 12 bytes,
\* toHexString() is the 24-character lowercase hex of them (the input string in
\* lowercase), and equals() is true exactly for operands with the same 12 bytes.
C18_ObjectIdValidation ==
    made # NoVal =>
        /\ made.kind = "string" =>
              (made.ret.ok <=> (Len(made.input) = 24
                                 /\ \A i \in 1..Len(made.input) : made.input[i] \in HEX_CHARS))
        /\ made.kind = "bytes" => (made.ret.ok <=> Len(made.input) = 12)
        /\ ~made.ret.ok => obj = NoVal
        /\ made.ret.ok =>
              /\ obj # NoVal /\ Len(heap[obj.bytes]) = 12
              /\ made.kind = "bytes" => heap[obj.bytes] = made.input
              /\ (lastRet # NoVal /\ lastRet.op \in {"toHexString", "toString"}) =>
                    /\ Len(lastRet.ret) = 24
                    /\ \A i \in 1..24 : lastRet.ret[i] \in HEX_CHARS /\ ~IsUpperChar(lastRet.ret[i])
                    /\ \A i \in 1..12 :
                          HexVal(lastRet.ret[2 * i - 1]) * 16 + HexVal(lastRet.ret[2 * i])
                             = heap[obj.bytes][i]
                    /\ made.kind = "string" => lastRet.ret = ToLowerCase(made.input)
              /\ (lastRet # NoVal /\ lastRet.op = "equals") =>
                    (lastRet.ret <=> lastRet.arg = heap[obj.bytes])

\* C18 witness: a 24-character string with uppercase hex digits is accepted and
\* toHexString() returns it in lowercase
C18_Witness ==
    /\ made # NoVal /\ made.kind = "string" /\ made.ret.ok
    /\ made.input # ToLowerCase(made.input)
    /\ lastRet # NoVal /\ lastRet.op = "toHexString" /\ lastRet.ret = ToLowerCase(made.input)

BASE36_CHARS ==
    {"0", "1", "2", "3", "4", "5", "6", "7", "8", "9"}
    \cup {UpperLetters[i] : i \in 1..26} \cup {LowerLetters[i] : i \in 1..26}

\* s is not empty and all its characters are in [0-9A-Za-z]
ValidBase36(s) == s # <<>> /\ \A i \in 1..Len(s) : s[i] \in BASE36_CHARS

\* C19: for every non-empty string s over [0-9A-Za-z], decodeBase36(s),
\* decodeBase36(s.toLowerCase()) and decodeBase36(s.toUpperCase()) succeed with
\* the same bytes; decodeBase36 refuses the empty string and every string with
\* a character outside [0-9A-Za-z], and encodeBase36 refuses the empty byte
\* sequence.
C19_Base36CaseTolerance ==
    /\ IsCall(1, "decodeBase36") =>
          /\ calls[1].ret.ok <=> ValidBase36(calls[1].arg)
          /\ IsCall(2, "decodeBase36") =>
                /\ calls[2].arg \in {ToLowerCase(calls[1].arg), ToUpperCase(calls[1].arg)}
                /\ calls[2].ret.ok <=> calls[1].ret.ok
                /\ calls[1].ret.ok => calls[2].ret.val = calls[1].ret.val
    /\ (IsCall(1, "encodeBase36") /\ calls[1].arg = <<>>) => ~calls[1].ret.ok

\* C19 witness: "0aZz" and "0azz" decode to the same bytes
C19_Witness ==
    /\ IsCall(1, "decodeBase36") /\ IsCall(2, "decodeBase36")
    /\ calls[1].arg = <<"0", "a", "Z", "z">>
    /\ calls[2].arg = <<"0", "a", "z", "z">>
    /\ calls[1].ret.ok /\ calls[2].ret = calls[1].ret

\* bytes is a minimal encoding: continuation bits on all bytes but the last,
\* and no zero digit at the top unless it is the only digit
Minimal(bytes) ==
    /\ bytes # <<>>
    /\ \A i \in 1..Len(bytes) : (bytes[i] >= 128) <=> (i < Len(bytes))
    /\ Len(bytes) > 1 => bytes[Len(bytes)] # 0

\* C20 as stated: every VarInt object, made from a number or from bytes, holds
\* a value v in 0..2^53-1 and bytes equal to VarInt.encode(v).
C20_AlwaysCanonical ==
    (IsCall(1, "new VarInt") /\ calls[1].ret.ok) =>
        /\ IsSafeInteger(calls[1].ret.val.value)
        /\ calls[1].ret.val.bytes = VarIntEncode(Nat64(calls[1].ret.val.value)).val

\* C20 amended: every VarInt object holds a value v in 0..2^53-1 and bytes
\* that decode to v; made from a number its bytes are VarInt.encode(v), the
\* minimal encoding; made from a byte sequence its bytes are the bytes decode
\* consumed, which are VarInt.encode(v) exactly when they are minimal.
C20_VarIntObject ==
    (IsCall(1, "new VarInt") /\ calls[1].ret.ok) =>
        LET v == calls[1].ret.val.value
            bytes == calls[1].ret.val.bytes
        IN /\ IsSafeInteger(v)
           /\ SumOf(bytes) = v
           /\ UpToTerminator(bytes) = bytes /\ Terminated(bytes)
           /\ calls[1].arg.kind = "nat" =>
                 /\ v = calls[1].arg.mag
                 /\ Minimal(bytes)
                 /\ bytes = VarIntEncode(Nat64(v)).val
           /\ calls[1].arg.kind = "bytes" =>
                 /\ bytes = UpToTerminator(calls[1].arg.bytes)
                 /\ (bytes = VarIntEncode(Nat64(v)).val) <=> Minimal(bytes)
           /\ calls[1].arg.kind \in {"nat", "bytes"}

\* C20 witness: new VarInt(Uint8Array [0x80, 0x00]) holds 0 and the two bytes
\* 80 00, not the one byte 00
C20_Witness ==
    /\ IsCall(1, "new VarInt")
    /\ calls[1].arg = [kind |-> "bytes", bytes |-> <<128, 0>>]
    /\ calls[1].ret = Ok([value |-> Num0, bytes |-> <<128, 0>>])

\* floor(n / 128^k)
RECURSIVE DivPow128(_, _)
DivPow128(n, k) == IF k = 0 THEN n ELSE DivPow128(NumDivSmall(n, 128), k - 1)

\* 128^k, for k up to 8 (2^56)
RECURSIVE Pow128(_)
Pow128(k) == IF k = 0 THEN ToNum(1) ELSE NumMulSmall(Pow128(k - 1), 128)

\* the least L >= 1 with n < 128^L, for n below 2^56
LeastLength(n) == CHOOSE L \in 1..8 : NumLt(n, Pow128(L)) /\ (L = 1 \/ ~NumLt(n, Pow128(L - 1)))

\* the argument of the k-th call is an integer in 0..2^53-1
SafeArgument(k) == calls[k].arg.kind = "nat" /\ NumLeq(calls[k].arg.mag, MAX_SAFE_INTEGER)

\* C21: for every integer n in 0..2^53-1, VarInt.encode(n) is the minimal
\* LEB128 sequence: at least one byte, the continuation bit set on every byte
\* but the last, floor(n / 128^k) mod 128 in the low 7 bits of the k-th byte, a
\* last byte that is not zero unless n = 0, and so the least length L >= 1 with
\* n < 128^L.  For a negative, non-integer, non-finite or larger argument it
\* throws and returns no bytes.
C21_EncodeMinimal ==
    IsCall(1, "VarInt.encode") =>
        LET n == calls[1].arg.mag
            ret == calls[1].ret
        IN IF SafeArgument(1)
           THEN /\ ret.ok
                /\ Len(ret.val) >= 1
                /\ \A i \in 1..Len(ret.val) :
                      /\ ret.val[i] \in 0..255
                      /\ (ret.val[i] >= 128) <=> (i < Len(ret.val))
                      /\ ret.val[i] % 128 = NumModSmall(DivPow128(n, i - 1), 128)
                /\ (ret.val[Len(ret.val)] = 0) => n = Num0
                /\ Len(ret.val) = LeastLength(n)
           ELSE /\ ~ret.ok
                /\ ret.err \in {"TypeError", "RangeError"}

\* C21 witness: VarInt.encode(16384) is 80 80 01, three bytes as 128^2 <= 16384 < 128^3
C21_Witness ==
    /\ IsCall(1, "VarInt.encode")
    /\ calls[1].arg = Nat64(ToNum(16384))
    /\ calls[1].ret = Ok(<<128, 128, 1>>)

\* C21 witness of the refusals: VarInt.encode(2^53) throws a RangeError
C21_WitnessRefused ==
    /\ IsCall(1, "VarInt.encode")
    /\ calls[1].arg = Nat64(<<0, 0, 0, 32>>)
    /\ calls[1].ret = Err("RangeError")

\* ---- extraction and try-order, read off the input string ----
Least(S) == CHOOSE x \in S : \A y \in S : x <= y
Greatest(S) == CHOOSE x \in S : \A y \in S : x >= y

\* parseRetailId has gone past its extraction step
Extracted == pc \in {"strict", "strictFailed", "fallback", "exhausted", "done", "reencoded"}

\* the input without its leading and trailing white space
TrimmedInput ==
    LET ink == {i \in 1..Len(input) : input[i] \notin {" ", "\t", "\n", "\r"}}
    IN IF ink = {} THEN <<>> ELSE SubSeq(input, Least(ink), Greatest(ink))

\* the number of letters in front of "://" at the start of t, 0 when t does
\* not start with letters followed by "://"
SchemeLength(t) ==
    LET ks == {k \in 1..(Len(t) - 3) :
                  /\ \A i \in 1..k : t[i] \in UpperSet \cup LowerSet
                  /\ t[k + 1] = ":" /\ t[k + 2] = "/" /\ t[k + 3] = "/"}
    IN IF ks = {} THEN 0 ELSE Least(ks)

SchemeLetters == SubSeq(TrimmedInput, 1, SchemeLength(TrimmedInput))
AllUpper(scheme) == \A i \in 1..Len(scheme) : scheme[i] \in UpperSet
AllLower(scheme) == \A i \in 1..Len(scheme) : scheme[i] \in LowerSet

\* the text after the scheme of t, up to its first "#" or "?"
UrlPath(t) ==
    LET rest == SubSeq(t, SchemeLength(t) + 4, Len(t))
        stops == {i \in 1..Len(rest) : rest[i] \in {"#", "?"}}
    IN IF stops = {} THEN rest ELSE SubSeq(rest, 1, Least(stops) - 1)

\* the non-empty segments of p between "/": where they start and where they end
SegmentStarts(p) == {i \in 1..Len(p) : p[i] # "/" /\ (i = 1 \/ p[i - 1] = "/")}
SegmentEnds(p) == {i \in 1..Len(p) : p[i] # "/" /\ (i = Len(p) \/ p[i + 1] = "/")}
FirstSegment(p) == SubSeq(p, Least(SegmentStarts(p)), Least(SegmentEnds(p)))
LastSegment(p) == SubSeq(p, Greatest(SegmentStarts(p)), Greatest(SegmentEnds(p)))

\* C22: the first encoding parseRetailId attempts is base64 exactly when the
\* input has a scheme in lowercase letters only, or it gives no scheme hint
\* (no scheme, or a scheme of mixed case) and the extracted shortCode contains
\* "-" or "_"; in every other case base36 is attempted first; a scheme hint
\* overrides the character test.
C22_TryOrder ==
    (Extracted /\ Len(attempts) >= 1) =>
        LET hasScheme == SchemeLength(TrimmedInput) > 0
            noHint == ~hasScheme \/ (~AllUpper(SchemeLetters) /\ ~AllLower(SchemeLetters))
            marked == \E i \in 1..Len(extracted.shortCode) : extracted.shortCode[i] \in {"-", "_"}
        IN /\ attempts[1].enc \in {"base36", "base64"}
           /\ (attempts[1].enc = "base64") <=>
                 ((hasScheme /\ AllLower(SchemeLetters)) \/ (noHint /\ marked))
           /\ (hasScheme /\ AllUpper(SchemeLetters) /\ marked) => attempts[1].enc = "base36"

\* C22 witness: HTTPS://1A4.COM/A-_= has "-" and "_" in its shortCode and an
\* uppercase scheme, and base36 is attempted first
C22_Witness ==
    /\ Extracted /\ Len(attempts) >= 1
    /\ input = UPPER_PREFIX \o <<"A", "-", "_", "=">>
    /\ attempts[1].enc = "base36"

\* C23: for an input that after trimming starts with letters and "://", the
\* text after the scheme is cut at the first "#", then at the first "?", and
\* split on "/" without the empty segments: fewer than 2 segments is the
\* malformed-URL error, otherwise domain is the first and shortCode the last
\* segment, so shortCode holds no "/", "?" or "#"; for any other input
\* shortCode is the whole trimmed input, with no domain and no hint; an input
\* that is empty after trimming fails with the empty-input error.
C23_Extraction ==
    Extracted =>
        LET t == TrimmedInput
            p == UrlPath(t)
        IN IF t = <<>>
           THEN extracted = NoVal /\ outcome = Err("Empty RetailID input")
           ELSE IF SchemeLength(t) > 0
           THEN IF Cardinality(SegmentStarts(p)) < 2
                THEN extracted = NoVal /\ outcome = Err("No path segment found in URL")
                ELSE /\ extracted # NoVal
                     /\ extracted.domain = Some(FirstSegment(p))
                     /\ extracted.shortCode = LastSegment(p)
                     /\ \A i \in 1..Len(extracted.shortCode) :
                           extracted.shortCode[i] \notin {"/", "?", "#"}
           ELSE /\ extracted # NoVal
                /\ extracted.shortCode = t
                /\ extracted.domain = None
                /\ extracted.schemeHint = None

\* C23 witness: HTTPS://1A4.COM/x/<code>?q=1/2#f resolves with the domain
\* 1A4.COM and the code alone as shortCode
C23_Witness ==
    /\ pc = "done" /\ outcome.ok
    /\ input = UPPER_PREFIX \o <<"x", "/">> \o README_CODE \o <<"?", "q", "=", "1", "/", "2", "#", "f">>
    /\ extracted.shortCode = README_CODE
    /\ extracted.domain = Some(<<"1", "A", "4", ".", "C", "O", "M">>)

\* C24: for a URL input the scheme hint is base36 exactly when every scheme
\* character is uppercase, base64 exactly when every one is lowercase, and
\* absent when the scheme mixes cases, whatever the scheme, the domain and the
\* shortCode are.
C24_SchemeCaseHint ==
    (Extracted /\ extracted # NoVal /\ SchemeLength(TrimmedInput) > 0) =>
        /\ (extracted.schemeHint = Some("base36")) <=> AllUpper(SchemeLetters)
        /\ (extracted.schemeHint = Some("base64")) <=> AllLower(SchemeLetters)
        /\ (extracted.schemeHint = None) <=> (~AllUpper(SchemeLetters) /\ ~AllLower(SchemeLetters))

\* C24 witness: FTP://1A4.COM/<code> has the hint base36 though its scheme is not https
C24_Witness ==
    /\ Extracted /\ extracted # NoVal
    /\ SchemeLetters = <<"F", "T", "P">>
    /\ extracted.schemeHint = Some("base36")
    /\ extracted.shortCode = README_CODE

\* C24 witness of the mixed case: hTTp://d/<code> has no hint
C24_WitnessMixed ==
    /\ Extracted /\ extracted # NoVal
    /\ SchemeLetters = <<"h", "T", "T", "p">>
    /\ extracted.schemeHint = None

\* C25: for every buffer id(12 bytes) ++ V ++ T, with V a terminated VarInt
\* that VarInt.decode accepts and T any bytes, getBatchIdAndIndex gives in each
\* mode the outcome it gives for the buffer without T (and so for id ++ V): the
\* same batchId and index, the index V encodes, or the same rejection.
C25_TrailingIgnored ==
    (IsCall(1, "getBatchIdAndIndex") /\ IsCall(2, "getBatchIdAndIndex")) =>
        LET b == calls[1].arg.buffer
            V == UpToTerminator(Drop(b, 12))
        IN (/\ Len(b) >= 13
            /\ Terminated(Drop(b, 12))
            /\ VarIntDecode(V, 0).ok
            /\ Take(calls[2].arg.buffer, Len(b)) = b
            /\ calls[2].arg.mode = calls[1].arg.mode) =>
               /\ calls[2].ret = calls[1].ret
               /\ calls[1].ret.ok =>
                     /\ calls[1].ret.val.index = SumOf(V)
                     /\ calls[2].ret.val.batchId.bytes = Take(b, 12)

\* C25 witness: the README's buffer for index 1 followed by ten bytes ff, which
\* no VarInt decoder would accept, still gives index 1
C25_Witness ==
    /\ IsCall(1, "getBatchIdAndIndex") /\ IsCall(2, "getBatchIdAndIndex")
    /\ calls[1].arg.buffer = README_ID \o <<1>>
    /\ calls[2].arg.buffer = README_ID \o <<1>> \o Repeat(255, 10)
    /\ calls[2].ret.ok
    /\ calls[2].ret.val.index = ToNum(1)

\* parseRetailId has returned a result of its second loop, made in the given mode
FromPass2(mode) ==
    /\ Returned /\ outcome.ok
    /\ options # NoVal /\ options.validationFallback = mode
    /\ Len(attempts) >= 3
    /\ attempts[Len(attempts)].mode = mode /\ attempts[Len(attempts)].ok

\* C26: whenever parseRetailId with validationFallback = mongo returns a
\* result of its second pass, the identifier has no known prefix and its first
\* 4 bytes are a timestamp within the valid range; the strict attempt with the
\* encoding that succeeded was made and failed, so the branch of mode mongo that
\* accepts a known prefix unchecked is never what makes a second-pass attempt
\* succeed.
C26_MongoChecksTimestamp ==
    FromPass2("mongo") =>
        LET id == outcome.val.batchId.bytes
            last == attempts[Len(attempts)]
        IN /\ ~KnownPrefixBytes(id)
           /\ LexLeq(TS_2012, Take(id, 4)) /\ LexLeq(Take(id, 4), TS_2052)
           /\ \E k \in 1..2 :
                 attempts[k] = [mode |-> "strict", enc |-> last.enc, ok |-> FALSE]
           /\ outcome.val.encoding = last.enc

\* C26 witness: the code of 5f0000000020081000006609 (a second of 2020) and
\* index 1 resolves in the second pass under mongo
C26_Witness ==
    /\ FromPass2("mongo")
    /\ outcome.val.batchId.bytes = IdOf(<<95, 0, 0, 0>>, 0)
    /\ outcome.val.index = ToNum(1)

\* a second parseRetailId call on the input of the first has been made
\* the second call has ended: calls[1] is the first call, outcome the second's
ParsedAgain == pc = "done" /\ entry = EntryParse /\ IsCall(1, "parseRetailId")

\* C27: for every input that parseRetailId resolves with strictPrefixesOnly =
\* true, every combination of validationFallback and strictPrefixesOnly gives
\* the identical result (batchId, index, encoding, domain, shortCode); and two
\* calls with the same input and options give the same outcome.
C27_FallbackIrrelevant ==
    ParsedAgain =>
        LET first == calls[1]
        IN /\ first.arg.input = input
           /\ (first.arg.options = options) => first.ret = outcome
           /\ (options.strictPrefixesOnly /\ outcome.ok) => first.ret = outcome
           /\ (first.arg.options.strictPrefixesOnly /\ first.ret.ok) => outcome = first.ret

\* C27 witness: the code that decodes either way, resolved as base 64 with
\* {mongo, strictPrefixesOnly} and again, to the same result, with {any}
C27_Witness ==
    /\ ParsedAgain
    /\ input = AMBIGUOUS_CODE
    /\ calls[1].arg.options = [validationFallback |-> "mongo", strictPrefixesOnly |-> TRUE]
    /\ outcome.ok /\ outcome.val.encoding = "base64"
    /\ attempts[1] = [mode |-> "strict", enc |-> "base36", ok |-> FALSE]
    /\ DecodeWith(input, "base36").ok /\ Len(DecodeWith(input, "base36").val) >= 13
    /\ options = [validationFallback |-> "any", strictPrefixesOnly |-> FALSE]
    /\ calls[1].ret = outcome

\* C28: every result parseRetailId returns has the shortCode and the domain
\* that extraction takes from the input; decoding its shortCode with the codec
\* its encoding field names gives a buffer of 13 bytes or more whose first 12
\* bytes are batchId and whose VarInt at offset 12 decodes to index; and index
\* is an integer in 0..2^53-1.
C28_ResultSoundness ==
    (Returned /\ outcome.ok) =>
        LET r == outcome.val
            t == TrimmedInput
            buf == DecodeWith(r.shortCode, r.encoding)
        IN /\ r.shortCode = extracted.shortCode /\ r.domain = extracted.domain
           /\ IF SchemeLength(t) > 0
              THEN r.shortCode = LastSegment(UrlPath(t)) /\ r.domain = Some(FirstSegment(UrlPath(t)))
              ELSE r.shortCode = t /\ r.domain = None
           /\ r.encoding \in {"base36", "base64"}
           /\ buf.ok
           /\ Len(buf.val) >= 13
           /\ Take(buf.val, 12) = r.batchId.bytes
           /\ VarIntDecode(buf.val, 12).ok
           /\ VarIntDecode(buf.val, 12).val.value = r.index
           /\ r.index = SumOf(UpToTerminator(Drop(buf.val, 12)))
           /\ NumLeq(r.index, MAX_SAFE_INTEGER)

\* C28 witness: the base-64 URL of ffffffff0020081000006609 and index 1,
\* resolved in the second pass, with the domain 1a4.com
C28_Witness ==
    /\ Returned /\ outcome.ok
    /\ outcome.val.encoding = "base64"
    /\ outcome.val.batchId.bytes = IdOf(<<255, 255, 255, 255>>, 0)
    /\ outcome.val.index = ToNum(1)
    /\ outcome.val.domain = Some(<<"1", "a", "4", ".", "c", "o", "m">>)
    /\ Len(attempts) = 3

\* the Retry-After headers that are a finite number above 0, with the wait
\* they ask for in milliseconds
POSITIVE_RETRY_AFTER ==
    {[header |-> <<"5">>, ms |-> 5000], [header |-> <<"0", ".", "5">>, ms |-> 500],
     [header |-> <<" ", "3", " ">>, ms |-> 3000]}

\* completion is what parse makes of the response: its data when the status
\* is 2xx, a MetrcApiError with its status otherwise
CompletionOf(res, completion) ==
    IF res.status \in 200..299 THEN completion.ok
    ELSE /\ ~completion.ok
         /\ completion.err # FETCH_REJECTED
         /\ completion.err.name = "MetrcApiError" /\ completion.err.status = res.status

\* C29: an invocation of MetrcHttp.request makes at most two fetch calls; the
\* second is made only if the first response has status 429 and a Retry-After
\* header that parses to a finite number above 0, and only after a wait of that
\* many seconds has elapsed; the second response is parsed and returned, or
\* raised as MetrcApiError, with no further retry even if it is again 429; and
\* the timeout timer, when one was started, is cleared on every exit path.
C29_BoundedRetry ==
    /\ Len(requests) <= 1 /\ Len(fetches) <= 2 /\ Len(waits) <= 1
    /\ Len(responses) <= Len(fetches)
    /\ Len(fetches) = 2 =>
          /\ responses # <<>>
          /\ responses[1].status = 429
          /\ responses[1].retryAfter.some
          /\ \E e \in POSITIVE_RETRY_AFTER :
                /\ e.header = responses[1].retryAfter.val
                /\ waits = <<[ms |-> e.ms, elapsed |-> TRUE]>>
          /\ fetches[2].url = fetches[1].url /\ fetches[2].method = fetches[1].method
    /\ (phase = "exit" /\ Len(responses) = 2) => CompletionOf(responses[2], result)
    /\ (phase = "exit" /\ Len(responses) = 1 /\ Len(fetches) = 1) => CompletionOf(responses[1], result)
    /\ (phase = "exit" /\ Len(responses) < Len(fetches)) => result = Err(FETCH_REJECTED)
    /\ phase = "exit" => (timer.started => timer.cleared)
    /\ timer.cleared => phase = "exit"

\* C29 witness: two fetches, both answered 429 with Retry-After: 5, the second
\* raised as MetrcApiError 429, the timeout timer fired on the way and cleared
C29_Witness ==
    /\ phase = "exit" /\ pc = "http"
    /\ Len(fetches) = 2 /\ Len(responses) = 2
    /\ responses[2].status = 429 /\ responses[2].retryAfter = Some(<<"5">>)
    /\ ~result.ok /\ result.err.status = 429
    /\ timer.started /\ timer.fired /\ timer.cleared

\* C29 witness of a fetch rejection with a timer running
C29_WitnessRejected ==
    /\ phase = "exit" /\ pc = "http"
    /\ result = Err(FETCH_REJECTED)
    /\ Len(fetches) = 2
    /\ timer.started /\ timer.cleared

\* the short code of the input as extraction reads it
ShortCodeOfInput ==
    IF SchemeLength(TrimmedInput) > 0 THEN LastSegment(UrlPath(TrimmedInput)) ELSE TrimmedInput

\* a path segment with its percent escapes %XX read back as the character of code XX
RECURSIVE Unescape(_)
Unescape(segment) ==
    IF segment = <<>> THEN <<>>
    ELSE IF Head(segment) = "%"
    THEN <<ASCII_PRINTABLE[(PosIn(HEX_UPPER, segment[2]) - 1) * 16 + PosIn(HEX_UPPER, segment[3]) - 32]>>
         \o Unescape(Drop(segment, 3))
    ELSE <<Head(segment)>> \o Unescape(Tail(segment))

\* C30: receiveByQrUrl resolves qrUrl with parseRetailId under the default
\* options before anything else; if that fails the error is raised and no
\* HTTP request is issued; if it succeeds exactly one request is issued, a GET
\* to /retailid/v2/receive/qr/{shortCode} with the shortCode as extracted from
\* the input, URI-encoded and not re-encoded from batchId and index.
C30_ParseBeforeRequest ==
    (entry # NoVal /\ entry = EntryReceive) =>
        /\ options = DefaultParseOptions
        /\ Len(requests) <= 1
        /\ (requests # <<>> \/ fetches # <<>>) => (pc = "done" /\ outcome.ok)
        /\ (pc = "done" /\ ~outcome.ok) =>
              /\ requests = <<>> /\ fetches = <<>>
              /\ phase \in {"idle", "exit"}
              /\ phase = "exit" => result = outcome
        /\ (pc = "done" /\ outcome.ok /\ phase # "idle") =>
              /\ Len(requests) = 1
              /\ requests[1].method = "GET"
              /\ requests[1].path = RECEIVE_QR_PATH \o encodeURIComponent(ShortCodeOfInput)
              /\ Take(requests[1].path, Len(RECEIVE_QR_PATH)) = RECEIVE_QR_PATH
              /\ \A i \in (Len(RECEIVE_QR_PATH) + 1)..Len(requests[1].path) :
                    requests[1].path[i] \in URI_UNESCAPED \cup {"%"}
              /\ Unescape(Drop(requests[1].path, Len(RECEIVE_QR_PATH))) = ShortCodeOfInput
              /\ requests[1].licenseNumber = Some(LICENSE)
              /\ \A k \in 1..Len(fetches) :
                    fetches[k].method = "GET" /\ fetches[k].url.path = requests[1].path

\* C30 witness: the standard base-64 text of the README's identifier and the
\* index 255, with "/" and "=" in it, is requested as GkBgMAAgCBAAAGYJ%2FwE%3D
C30_Witness ==
    /\ entry = EntryReceive /\ pc = "done" /\ outcome.ok
    /\ phase = "exit" /\ result.ok
    /\ input = bytesToBase64(README_ID \o <<255, 1>>)
    /\ requests[1].path =
          RECEIVE_QR_PATH \o <<"G", "k", "B", "g", "M", "A", "A", "g", "C", "B", "A", "A", "A", "G", "Y",
                               "J", "%", "2", "F", "w", "E", "%", "3", "D">>

\* C30 witness of the code kept as scanned: a lowercase base-36 code is
\* requested in lowercase, not as the canonical uppercase code
C30_WitnessAsScanned ==
    /\ entry = EntryReceive /\ pc = "done" /\ outcome.ok /\ phase # "idle"
    /\ outcome.val.shortCode = ToLowerCase(README_CODE)
    /\ requests[1].path = RECEIVE_QR_PATH \o ToLowerCase(README_CODE)

\* C30 witness of the failure: a string that does not resolve raises the
\* resolver's error and issues no request
C30_WitnessRaised ==
    /\ entry = EntryReceive /\ pc = "done" /\ phase = "exit"
    /\ input = GarbageInput
    /\ result = Err("Unrecognized RetailID")
    /\ requests = <<>> /\ fetches = <<>>

====
